---- MODULE Spec2Model ----
(***************************************************************************)
(* State-machine model of the PSP emulator core: the register file and    *)
(* memory map of the CPU engine (psp-core.c), the supervisor call         *)
(* dispatcher and its handlers (psp-svc.c) with the cached x86 mappings,  *)
(* and the proxied PSP the handlers forward to.                           *)
(*                                                                         *)
(* Handler bodies are modelled as they are written in psp-svc.c.  The     *)
(* bodies of all handlers except pspEmuSvcAppExit and pspEmuSvcAppInit    *)
(* stand between "#if 0" and "#endif" in the source; they are modelled as *)
(* written, and none of them has a return statement, so the value they    *)
(* hand back to PSPEmuSvcStateCall is indeterminate (UndefInt).           *)
(*                                                                         *)
(* Memory is sampled: the contents of the proxy's memory and of every     *)
(* cache buffer are kept at the byte addresses in Tracked; a range        *)
(* operation acts on the tracked bytes inside its range.                  *)
(*                                                                         *)
(* The core API (memory access, start address, budgeted runs, stop,       *)
(* destroy) is modelled from psp-core.c; a running uc_emu_start executes  *)
(* one instruction per step, each advancing PC by 4.  PSPEmuCcdReset is   *)
(* only declared in psp-ccd.h and is modelled from the specification.     *)
(*                                                                         *)
(* The handlers that forward a call to the proxied PSP (SmuMsg, 0x32,     *)
(* 0x33, 0x35, 0x36, 0x38, Rng, 0x3c, 0x41, 0x42, QuerySmmRegion, the SMN *)
(* calls) move their buffers through the proxy's scratch area.  The proxy *)
(* is the environment: the rc of each library call, the status word and   *)
(* the bytes it leaves in the scratch area are chosen freely and are      *)
(* recorded in proxyOps.  Request blocks and size words the handlers read *)
(* from PSP memory are the firmware's and are chosen from small sets.     *)
(*                                                                         *)
(* The device at 0x03010000 (psp-dev-unknown-0x03010000.c) is modelled by *)
(* its two MMIO callbacks.                                                *)
(*                                                                         *)
(* Specifications: Spec (register loads and supervisor calls), SpecX86    *)
(* and SpecX86Map (x86 windows), SpecCore (memory API), SpecExec and      *)
(* SpecRun (budgeted runs), SpecSvcRun (one run that starts with          *)
(* supervisor calls), SpecFwd (forwarded calls), SpecDev (the device),    *)
(* SpecCcd (CCD reset) and SpecDestroy (the end of a core).               *)
(***************************************************************************)
EXTENDS Integers, Sequences, FiniteSets, TLC

\* ------------------------------------------------------------ constants

_4K == 4096
_64M == 67108864
_256K == 262144
\* Modulus of uint32_t arithmetic.  TLC integers are 32-bit signed, so the
\* model computes modulo 2^30; every address and size it uses lies below it.
U32 == 2 ^ 30

\* X86PADDR sentinel for an unused mapping slot (all ones: -1).
NIL_X86PADDR == -1

PSPSTATUS_GENERAL_MEMORY_ERROR == 9

\* ELEMENTS(aX86Mappings): mapping slots of one core, indexed 0..7.
X86MappingSlots == 0 .. 7

\* ------------------------------------------------------------ bounds

\* Number of 64 MiB x86 mapping slots the proxied PSP hands out.
NumProxySlots == 1

\* Number of registers that hold a value other than 0 at a time.
MaxRegsSet == 1

\* ------------------------------------------------------------ helpers

Max(a, b) == IF a >= b THEN a ELSE b

\* x & ~(uint32_t)0xfff
AlignDown4K(x) == (x % U32) - (x % _4K)

\* Next 4 KiB boundary at or above x.
RoundUp4K(x) == ((x + _4K - 1) \div _4K) * _4K

\* uint32_t subtraction.
Sub32(a, b) == (a - b + U32) % U32

\* Byte i (0 = least significant) of a little-endian 32-bit value.
ByteOf(v, i) == (v \div (256 ^ i)) % 256

\* ------------------------------------------------------------ registers

\* g_aUcRegs: PSPCOREREG value -> engine register; entry 0 is no register.
g_aUcRegs ==
    << "INVALID", "R0", "R1", "R2", "R3", "R4", "R5", "R6", "R7", "R8",
       "R9", "R10", "R11", "R12", "SP", "LR", "PC" >>

\* A lookup that yields the last entry of the table for every register.
pspEmuCoreReg2UcLast(enmReg) == g_aUcRegs[Len(g_aUcRegs)]

pspEmuCoreReg2Uc(enmReg) == g_aUcRegs[enmReg + 1]

UcRegs == { g_aUcRegs[i] : i \in 2 .. 17 }

\* PSPCOREREG values of the registers the handlers name: the places of
\* UC_ARM_REG_R0, UC_ARM_REG_R1 and UC_ARM_REG_R2 in g_aUcRegs.
PSPCOREREG_R0 == 1
PSPCOREREG_R1 == 2
PSPCOREREG_R2 == 3

\* pspEmuCoreErrConvertFromUcErr: UC_ERR_OK -> 0, anything else -> -1.
pspEmuCoreErrConvertFromUcErr(rcUc) == IF rcUc = "UC_ERR_OK" THEN 0 ELSE -1

\* uc_reg_read / uc_reg_write succeed exactly on a register of the engine.
UcRegOk(enmReg) == pspEmuCoreReg2Uc(enmReg) \in UcRegs

\* ------------------------------------------------------------ syscall table

\* g_apfnSyscalls, entry i + 1 is syscall i; "NULL" is an empty slot.
g_apfnSyscalls ==
    << "pspEmuSvcAppExit", "pspEmuSvcAppInit", "NULL", "pspEmuSvcSmnMapEx",
       "pspEmuSvcSmnMap", "pspEmuSvcSmnUnmap", "pspEmuSvcDbgLog",
       "pspEmuSvcX86MemMap", "pspEmuSvcX86MemUnmap", "pspEmuSvcX86CopyToPsp",
       "pspEmuSvcX86CopyFromPsp", "NULL", "NULL", "NULL", "NULL", "NULL",
       "NULL", "NULL", "NULL", "NULL", "NULL", "NULL", "NULL", "NULL",
       "NULL", "NULL", "NULL", "NULL", "NULL", "NULL", "NULL", "NULL",
       "NULL", "NULL", "NULL", "NULL", "NULL", "pspEmuSvcX86MemMapEx",
       "NULL", "NULL", "pspEmuSvcSmuMsg", "NULL", "NULL", "NULL", "NULL",
       "NULL", "NULL", "NULL", "NULL", "NULL", "pspEmuSvc0x32Unk",
       "pspEmuSvc0x33Unk", "NULL", "pspEmuSvc0x35Unk", "pspEmuSvc0x36Unk",
       "NULL", "pspEmuSvc0x38Unk", "pspEmuSvcRng", "NULL", "NULL",
       "pspEmuSvcQuerySaveStateRegion", "NULL", "NULL", "NULL", "NULL",
       "pspEmuSvc0x41Unk", "pspEmuSvc0x42Unk", "NULL", "NULL", "NULL",
       "NULL", "NULL", "pspEmuSvcQuerySmmRegion" >>

\* Syscall numbers section 4.5 of the specification lists.
SvcListed ==
    { 0, 1, 3, 4, 5, 6, 7, 8, 9, 10, 37, 40, 50, 51, 56, 57, 60, 65, 66, 72 }

\* A dispatcher that knows the listed numbers only.
SvcHandlerOfListed(idxSyscall) ==
    IF idxSyscall \in SvcListed THEN g_apfnSyscalls[idxSyscall + 1] ELSE "NULL"

\* The handler PSPEmuSvcStateCall invokes for idxSyscall, "NULL" for none.
SvcHandlerOf(idxSyscall) ==
    IF idxSyscall < Len(g_apfnSyscalls) /\ g_apfnSyscalls[idxSyscall + 1] /= "NULL"
    THEN g_apfnSyscalls[idxSyscall + 1]
    ELSE "NULL"

\* The value a handler without a return statement hands to its caller.
UndefInt == { 0, -1 }

\* ------------------------------------------------------------ proxied PSP

\* PSP address of x86 mapping slot s on the proxied PSP (64 MiB apart).
ProxySlotBase(s) == _64M + (s * _64M)

ProxySlots == 0 .. (NumProxySlots - 1)

\* PSP address the proxied PSP returns for x86 address phys mapped in slot s.
ProxyX86MapAddr(s, phys) == ProxySlotBase(s) + (phys % _64M)

\* First free x86 mapping slot of the proxied PSP, -1 when all are in use.
ProxyFreeSlot(px) ==
    IF \E s \in DOMAIN px : px[s] = NIL_X86PADDR
    THEN CHOOSE s \in DOMAIN px :
            /\ px[s] = NIL_X86PADDR
            /\ \A t \in DOMAIN px : px[t] = NIL_X86PADDR => s <= t
    ELSE 0 - 1

\* Status the proxied PSP returns for a request it rejects.
ProxyStsError == PSPSTATUS_GENERAL_MEMORY_ERROR

\* ------------------------------------------------------------ sampled memory

\* Tracked byte addresses: offset 16 of the first 64 MiB slot.
Tracked == { ProxySlotBase(0) + 16 }

\* A byte nobody initialised (heap memory, or a read out of bounds).
UNDEF == 0 - 1

\* Contents of x86 memory behind the proxied PSP before anyone wrote it.
ProxyMemInit == [ a \in Tracked |-> (a + 1) % 256 ]

\* x86 addresses the firmware asks to map (64 MiB aligned; 16 bytes above).
PhysAddrs == { 12 * _64M, (12 * _64M) + 16 }

\* 32-bit value the firmware stores into a window.
WriteVal == 120 + (256 * (86 + (256 * (52 + (256 * 18)))))

\* Address AppInit is asked to store the stack top at (0x51ffc).
UsrStackSlot == (82 * _4K) - 4

\* SRAM bytes that are tracked: the first two and the last one.
SramTracked == { 0, 1, _256K - 1 }

\* A buffer in SRAM the firmware hands to the forwarded supervisor calls
\* (0x5000), and an address nothing is mapped at (0x60000).
SvcBufBase == 5 * _4K
SvcBufUnmapped == 96 * _4K

\* The bytes of the buffer that are tracked: 16, enough for two 64-bit
\* values.
SvcBufTracked == { SvcBufBase + k : k \in 0 .. 15 }

\* Engine RAM bytes that are tracked: those of the SRAM, the four bytes of
\* the stack-top slot and the buffer of the forwarded calls.
RamTracked ==
    SramTracked \cup { UsrStackSlot + k : k \in 0 .. 3 } \cup SvcBufTracked

\* Ranges the embedder reads and writes through the core API: the first and
\* the last word of the SRAM, a word across its end, the word behind it.
MemApiAddrs == { 0, _256K - 4, _256K - 2, _256K }
MemApiSizes == { 1, 4 }

\* ------------------------------------------------------------ state

VARIABLES
    ucRegs,         \* engine registers
    ucMap,          \* engine memory map: set of [lo, hi, slot]
    ucRam,          \* engine RAM contents at RamTracked
    aX86Mappings,   \* PSPCOREINT.aX86Mappings
    pvBuf,          \* contents of each mapping's cache buffer at Tracked
    svc,            \* PSPSVCINT
    proxyMem,       \* x86 memory behind the proxied PSP at Tracked
    proxyX86,       \* x86 mapping slots of the proxied PSP: phys or NIL
    proxyOps,       \* proxy operations issued by the last step, in order
    lastCall,       \* the PSPEmuSvcStateCall that just returned, if any
    lastWritten,    \* per mapping and byte: what the PSP wrote last
    lastFetched,    \* per mapping and byte: what the last fault-in brought,
                    \* until the PSP writes the byte
    core,           \* PSPCOREINT: PspAddrExecNext, and whether it still exists
    ucRun,          \* the engine's uc_emu_start in progress, if any
    lastApi         \* the core or CCD API call that just returned, if any

vars ==
    << ucRegs, ucMap, ucRam, aX86Mappings, pvBuf, svc, proxyMem, proxyX86,
       proxyOps, lastCall, lastWritten, lastFetched, core, ucRun, lastApi >>

\* No value recorded.
NoVal == 0 - 2

\* calloc'ed PSPX86MEMCACHEDMAPPING.
ZeroMapping ==
    [ pPspCore |-> FALSE, PhysX86AddrBase |-> 0, PspAddrBase4K |-> 0,
      PspAddrBase |-> 0, PspAddrCached |-> 0, PspAddrHighestWritten |-> 0,
      cbMapped |-> 0, cbMapped4K |-> 0, cbAlloc |-> 0, pvMapping |-> FALSE ]

NoBuf == [ a \in Tracked |-> UNDEF ]
NoHist == [ a \in Tracked |-> NoVal ]

NoCall == [ idx |-> -1, handler |-> "NULL", rc |-> 0, fFailed |-> FALSE,
            regs |-> [ r \in UcRegs |-> 0 ] ]

NoApi == [ fn |-> "none", rc |-> 0, args |-> << >>, out |-> << >> ]

\* The supervisor state after PSPEmuSvcStateCreate: no proxy context, the
\* size of the state region as malloc left it.  X86MappingPrivState is the
\* member of the calloc'ed PSPCOREINT the handlers reach through pThis.
SvcCreated ==
    [ hProxyCtx |-> "NULL", cbStateRegion |-> UNDEF,
      X86MappingPrivState |-> ZeroMapping ]

\* The engine outside uc_emu_start.
UcIdle(enmStop) ==
    [ fRunning |-> FALSE, cInsnExec |-> 0, msExec |-> 0, cInsnLeft |-> 0,
      cInsnDone |-> 0, enmStop |-> enmStop ]

\* Address a CCD starts its firmware at.
CcdEntryPoint == 256

\* State after PSPEmuCoreCreate and PSPEmuSvcStateCreate returned 0 and the
\* start address was set to AddrExecStart, next to a proxied PSP that has
\* the x86 mapping slots in slots, all of them free.
Created(slots, AddrExecStart) ==
    /\ ucRegs = [ r \in UcRegs |-> 0 ]
    /\ ucMap = { [ lo |-> 0, hi |-> _256K, slot |-> -1 ] }
    /\ ucRam = [ a \in RamTracked |-> 0 ]
    /\ aX86Mappings = [ i \in X86MappingSlots |-> ZeroMapping ]
    /\ pvBuf = [ i \in X86MappingSlots |-> NoBuf ]
    /\ svc = SvcCreated
    /\ proxyMem = ProxyMemInit
    /\ proxyX86 = [ s \in slots |-> NIL_X86PADDR ]
    /\ proxyOps = << >>
    /\ lastCall = NoCall
    /\ lastWritten = [ i \in X86MappingSlots |-> NoHist ]
    /\ lastFetched = [ i \in X86MappingSlots |-> NoHist ]
    /\ core = [ fAlive |-> TRUE, PspAddrExecNext |-> AddrExecStart, idCcd |-> 0 ]
    /\ ucRun = UcIdle("none")
    /\ lastApi = NoApi

Init == Created(ProxySlots, 0)

\* State before PSPEmuCoreCreate: no core, nothing mapped, memory nobody
\* has allocated.
NoCore ==
    /\ ucRegs = [ r \in UcRegs |-> 0 ]
    /\ ucMap = { }
    /\ ucRam = [ a \in RamTracked |-> UNDEF ]
    /\ aX86Mappings =
          [ i \in X86MappingSlots |-> [ ZeroMapping EXCEPT !.PhysX86AddrBase = NoVal ] ]
    /\ pvBuf = [ i \in X86MappingSlots |-> NoBuf ]
    /\ svc = [ SvcCreated EXCEPT
                 !.X86MappingPrivState = [ ZeroMapping EXCEPT !.PhysX86AddrBase = NoVal ] ]
    /\ proxyMem = ProxyMemInit
    /\ proxyX86 = [ s \in ProxySlots |-> NIL_X86PADDR ]
    /\ proxyOps = << >>
    /\ lastCall = NoCall
    /\ lastWritten = [ i \in X86MappingSlots |-> NoHist ]
    /\ lastFetched = [ i \in X86MappingSlots |-> NoHist ]
    /\ core = [ fAlive |-> FALSE, PspAddrExecNext |-> 0, idCcd |-> 0 ]
    /\ ucRun = UcIdle("none")
    /\ lastApi = NoApi

\* ------------------------------------------------------------ CPU engine

Min(a, b) == IF a <= b THEN a ELSE b

\* uc_mmio_map: fails (map unchanged) on an empty or overlapping range.
UcMmioMap(map, lo, cb, slot) ==
    IF cb > 0 /\ ~(\E r \in map : r.lo < lo + cb /\ lo < r.hi)
    THEN map \cup { [ lo |-> lo, hi |-> lo + cb, slot |-> slot ] }
    ELSE map

RECURSIVE UcCoveredLen(_, _, _)
UcCoveredLen(map, lo, hi) ==
    IF map = { } THEN 0
    ELSE LET r == CHOOSE x \in map : TRUE
         IN  Max(0, Min(hi, r.hi) - Max(lo, r.lo))
                + UcCoveredLen(map \ { r }, lo, hi)

\* uc_mem_unmap: nothing to do for an empty range; fails (map unchanged)
\* unless the whole range is mapped; otherwise cuts the range out.
UcMemUnmap(map, lo, cb) ==
    IF cb = 0 \/ UcCoveredLen(map, lo, lo + cb) /= cb
    THEN map
    ELSE UNION { { p \in { [ r EXCEPT !.hi = Min(r.hi, lo) ],
                           [ r EXCEPT !.lo = Max(r.lo, lo + cb) ] } :
                   p.lo < p.hi } : r \in map }

\* uc_mem_write / uc_mem_read succeed when the range lies in mapped memory.
UcMemMapped(map, addr, cb) == UcCoveredLen(map, addr, addr + cb) = cb

\* PSPEmuCoreSetReg: [rc, regs].
PSPEmuCoreSetReg(regs, enmReg, uVal) ==
    IF UcRegOk(enmReg)
    THEN [ rc |-> pspEmuCoreErrConvertFromUcErr("UC_ERR_OK"),
           regs |-> [ regs EXCEPT ![pspEmuCoreReg2Uc(enmReg)] = uVal ] ]
    ELSE [ rc |-> pspEmuCoreErrConvertFromUcErr("UC_ERR_ARG"), regs |-> regs ]

\* PSPEmuCoreQueryReg: [rc, uVal]; *puVal keeps its old value on failure.
PSPEmuCoreQueryReg(regs, enmReg, uOld) ==
    IF UcRegOk(enmReg)
    THEN [ rc |-> pspEmuCoreErrConvertFromUcErr("UC_ERR_OK"),
           uVal |-> regs[pspEmuCoreReg2Uc(enmReg)] ]
    ELSE [ rc |-> pspEmuCoreErrConvertFromUcErr("UC_ERR_ARG"), uVal |-> uOld ]

\* PSPEmuCoreMemAddRegion: [rc, map]; the function only returns -1.
PSPEmuCoreMemAddRegion(map, AddrStart, cbRegion) ==
    [ rc |-> 0 - 1, map |-> map ]

\* A write that stores the most significant byte first.
PSPEmuCoreMemWriteSwapped(map, ram, AddrPspWrite, uVal, cbData) ==
    IF UcMemMapped(map, AddrPspWrite, cbData)
    THEN [ rc |-> pspEmuCoreErrConvertFromUcErr("UC_ERR_OK"),
           ram |-> [ a \in DOMAIN ram |->
                       IF AddrPspWrite <= a /\ a < AddrPspWrite + cbData
                       THEN ByteOf(uVal, (cbData - 1) - (a - AddrPspWrite))
                       ELSE ram[a] ] ]
    ELSE [ rc |-> pspEmuCoreErrConvertFromUcErr("UC_ERR_WRITE_UNMAPPED"),
           ram |-> ram ]

\* PSPEmuCoreMemWrite of the 32-bit value uVal: [rc, ram].
PSPEmuCoreMemWrite(map, ram, AddrPspWrite, uVal, cbData) ==
    IF UcMemMapped(map, AddrPspWrite, cbData)
    THEN [ rc |-> pspEmuCoreErrConvertFromUcErr("UC_ERR_OK"),
           ram |-> [ a \in DOMAIN ram |->
                       IF AddrPspWrite <= a /\ a < AddrPspWrite + cbData
                       THEN ByteOf(uVal, a - AddrPspWrite) ELSE ram[a] ] ]
    ELSE [ rc |-> pspEmuCoreErrConvertFromUcErr("UC_ERR_WRITE_UNMAPPED"),
           ram |-> ram ]

\* PSPEmuCoreMemRead: [rc, data], data the tracked bytes of the range; on
\* failure the destination buffer is left as the caller had it.
PSPEmuCoreMemRead(map, ram, AddrPspRead, cbDst) ==
    LET range == { a \in DOMAIN ram :
                     AddrPspRead <= a /\ a < AddrPspRead + cbDst }
    IN  IF UcMemMapped(map, AddrPspRead, cbDst)
        THEN [ rc |-> pspEmuCoreErrConvertFromUcErr("UC_ERR_OK"),
               data |-> [ a \in range |-> ram[a] ] ]
        ELSE [ rc |-> pspEmuCoreErrConvertFromUcErr("UC_ERR_READ_UNMAPPED"),
               data |-> [ a \in range |-> UNDEF ] ]

\* ------------------------------------------------------------ proxy channel

\* The proxy context the caller of PSPEmuSvcStateCreate supplies.
hPspProxyCtx == "hPspProxyCtx"

\* Records of proxy operations as the handlers issue them.
OpSvcCall(ctx, idx, a0, a1, a2, a3) ==
    [ op |-> "svc_call", ctx |-> ctx, idx |-> idx, args |-> << a0, a1, a2, a3 >> ]
OpMemWrite(ctx, addr, cb) ==
    [ op |-> "mem_write", ctx |-> ctx, addr |-> addr, cb |-> cb ]
OpMemRead(ctx, addr, cb) ==
    [ op |-> "mem_read", ctx |-> ctx, addr |-> addr, cb |-> cb ]

\* Proxy memory after a successful mem_write of cb bytes taken from src.
ProxyMemWritten(mem, addr, cb, src) ==
    [ a \in Tracked |-> IF addr <= a /\ a < addr + cb THEN src[a] ELSE mem[a] ]

\* ------------------------------------------------------------ SVC handlers

\* Syscall number of the state buffer query (psp-fw/svc_id.h): 0x3c.
SVC_GET_STATE_BUFFER == 60

\* The record of a finished PSPEmuSvcStateCall.
CallRec(regs, idx, rc, fFailed) ==
    [ idx |-> idx, handler |-> SvcHandlerOf(idx), rc |-> rc,
      fFailed |-> fFailed, regs |-> regs ]

\* Everything but the registers, the proxy log and the call record.
MemVars ==
    << ucMap, ucRam, aX86Mappings, pvBuf, svc, proxyMem, proxyX86,
       lastWritten, lastFetched >>

\* The fallback with the register write left out.
SvcNotImplementedSilent(regs, idxSyscall) ==
    /\ ucRegs' = regs
    /\ proxyOps' = << >>
    /\ lastCall' = CallRec(regs, idxSyscall, 0, FALSE)
    /\ lastApi' = NoApi
    /\ UNCHANGED MemVars

\* idxSyscall beyond the table or an empty slot: R0 = 0x9.
SvcNotImplemented(regs, idxSyscall) ==
    LET set == PSPEmuCoreSetReg(regs, PSPCOREREG_R0, 9)
    IN  /\ ucRegs' = set.regs
        /\ proxyOps' = << >>
        /\ lastCall' = CallRec(regs, idxSyscall, set.rc, FALSE)
        /\ lastApi' = NoApi
        /\ UNCHANGED MemVars

\* The values a read of pThis->cbStateRegion can produce: any value while
\* the field is still as malloc left it.
SvcCbStateRegion(s) ==
    IF s.cbStateRegion = UNDEF THEN { 0, 195948557 } ELSE { s.cbStateRegion }

\* 0x00: one proxy call for the state buffer; its failure is only printed.
pspEmuSvcAppExit(regs, idxSyscall) ==
    \E fProxyOk \in BOOLEAN, cb \in SvcCbStateRegion(svc) :
        /\ proxyOps' = << OpSvcCall(svc.hProxyCtx, SVC_GET_STATE_BUFFER,
                                    cb, 0, 0, 0) >>
        /\ lastCall' = CallRec(regs, idxSyscall, 0, ~fProxyOk)
        /\ lastApi' = NoApi
        /\ ucRegs' = regs
        /\ UNCHANGED MemVars

\* 0x01: map the stack, store the stack top at *R2, R0 = status.
pspEmuSvcAppInit(regs, idxSyscall) ==
    LET uStackTop == 335872
        qry == PSPEmuCoreQueryReg(regs, PSPCOREREG_R2, 0)
        add == IF qry.rc = 0
               THEN PSPEmuCoreMemAddRegion(ucMap, 327680, 2 * _4K)
               ELSE [ rc |-> qry.rc, map |-> ucMap ]
        wr  == IF add.rc = 0
               THEN PSPEmuCoreMemWrite(add.map, ucRam, qry.uVal, uStackTop, 4)
               ELSE [ rc |-> add.rc, ram |-> ucRam ]
        uSts == IF add.rc = 0 THEN 0 ELSE PSPSTATUS_GENERAL_MEMORY_ERROR
        set == IF wr.rc = 0
               THEN PSPEmuCoreSetReg(regs, PSPCOREREG_R0, uSts)
               ELSE [ rc |-> wr.rc, regs |-> regs ]
    IN  /\ ucRegs' = set.regs
        /\ ucMap' = add.map
        /\ ucRam' = wr.ram
        /\ proxyOps' = << >>
        /\ lastCall' = CallRec(regs, idxSyscall, set.rc, wr.rc /= 0)
        /\ lastApi' = NoApi
        /\ UNCHANGED << aX86Mappings, pvBuf, svc, proxyMem, proxyX86,
                        lastWritten, lastFetched >>

\* A handler whose body is empty: no effect, no return value.
SvcEmptyBody(regs, idxSyscall) ==
    \E rc \in UndefInt :
        /\ proxyOps' = << >>
        /\ lastCall' = CallRec(regs, idxSyscall, rc, FALSE)
        /\ lastApi' = NoApi
        /\ ucRegs' = regs
        /\ UNCHANGED MemVars

\* 0x07: the body is empty.
pspEmuSvcX86MemMap(regs, idxSyscall) == SvcEmptyBody(regs, idxSyscall)

\* The slots the handlers take to be in use.
X86LiveSlots(maps) ==
    { i \in X86MappingSlots : maps[i].PhysX86AddrBase /= NIL_X86PADDR }

\* First free mapping slot, -1 when every slot is in use.
FreeX86Slot(maps) ==
    IF \E i \in X86MappingSlots : maps[i].PhysX86AddrBase = NIL_X86PADDR
    THEN CHOOSE i \in X86MappingSlots :
            /\ maps[i].PhysX86AddrBase = NIL_X86PADDR
            /\ \A j \in X86MappingSlots :
                  maps[j].PhysX86AddrBase = NIL_X86PADDR => i <= j
    ELSE 0 - 1

\* Size of the mapping: from the x86 address to the end of its 64 MiB slot.
X86CbMapped(PhysX86AddrBase) ==
    ((PhysX86AddrBase - (PhysX86AddrBase % _64M)) + _64M) - PhysX86AddrBase

\* (cbMapped + _4K) & ~(uint32_t)0xfff
X86CbMapped4K(cbMapped) == AlignDown4K(cbMapped + _4K)

\* A mapping record that starts with its first page taken as cached.
X86NewMappingPrecached(PhysX86AddrBase, uAddr) ==
    [ pPspCore |-> TRUE, PhysX86AddrBase |-> PhysX86AddrBase,
      PspAddrBase4K |-> AlignDown4K(uAddr), PspAddrBase |-> uAddr,
      PspAddrCached |-> AlignDown4K(uAddr) + _4K, PspAddrHighestWritten |-> 0,
      cbMapped |-> X86CbMapped(PhysX86AddrBase),
      cbMapped4K |-> X86CbMapped4K(X86CbMapped(PhysX86AddrBase)),
      cbAlloc |-> 0, pvMapping |-> FALSE ]

\* The mapping record pspEmuSvcX86MemMapEx fills in a free slot.
X86NewMapping(PhysX86AddrBase, uAddr) ==
    [ pPspCore |-> TRUE, PhysX86AddrBase |-> PhysX86AddrBase,
      PspAddrBase4K |-> AlignDown4K(uAddr), PspAddrBase |-> uAddr,
      PspAddrCached |-> AlignDown4K(uAddr), PspAddrHighestWritten |-> 0,
      cbMapped |-> X86CbMapped(PhysX86AddrBase),
      cbMapped4K |-> X86CbMapped4K(X86CbMapped(PhysX86AddrBase)),
      cbAlloc |-> 0, pvMapping |-> FALSE ]

\* 0x25: proxy the call, then cache the mapping in a free slot and register
\* it with the engine; R0 = mapped address, 0 on failure.
pspEmuSvcX86MemMapEx(regs, idxSyscall) ==
    LET uPhysX86AddrLow == regs["R0"]
        uPhysX86AddrHigh == regs["R1"]
        uMemType == regs["R2"]
        PhysX86AddrBase == (uPhysX86AddrHigh * U32) + uPhysX86AddrLow
        i == FreeX86Slot(aX86Mappings)
        s == ProxyFreeSlot(proxyX86)
    IN  \E fProxyOk \in BOOLEAN, rcRet \in UndefInt :
          LET uAddr == IF fProxyOk THEN ProxyX86MapAddr(s, PhysX86AddrBase) ELSE 0
              m == X86NewMapping(PhysX86AddrBase, uAddr)
          IN  /\ fProxyOk => s >= 0
              /\ proxyX86' = IF fProxyOk
                             THEN [ proxyX86 EXCEPT ![s] = PhysX86AddrBase ]
                             ELSE proxyX86
              /\ proxyOps' = << OpSvcCall(svc.hProxyCtx, idxSyscall,
                                          uPhysX86AddrLow, uPhysX86AddrHigh,
                                          uMemType, 0) >>
              /\ IF fProxyOk /\ i >= 0
                 THEN /\ aX86Mappings' = [ aX86Mappings EXCEPT ![i] = m ]
                      /\ ucMap' = UcMmioMap(ucMap, m.PspAddrBase4K, m.cbMapped4K, i)
                      /\ lastWritten' = [ lastWritten EXCEPT ![i] = NoHist ]
                      /\ lastFetched' = [ lastFetched EXCEPT ![i] = NoHist ]
                      /\ ucRegs' = [ regs EXCEPT !["R0"] = uAddr ]
                 ELSE /\ ucRegs' = [ regs EXCEPT !["R0"] = 0 ]
                      /\ UNCHANGED << aX86Mappings, ucMap, lastWritten, lastFetched >>
              /\ lastCall' = CallRec(regs, idxSyscall, rcRet, ~(fProxyOk /\ i >= 0))
              /\ lastApi' = NoApi
              /\ UNCHANGED << ucRam, pvBuf, svc, proxyMem >>

\* First slot whose PspAddrBase equals uAddr, -1 when there is none.
FindX86ByBase(maps, uAddr) ==
    IF \E i \in X86MappingSlots : maps[i].PspAddrBase = uAddr
    THEN CHOOSE i \in X86MappingSlots :
            /\ maps[i].PspAddrBase = uAddr
            /\ \A j \in X86MappingSlots : maps[j].PspAddrBase = uAddr => i <= j
    ELSE 0 - 1

\* The fields pspEmuSvcX86MemUnmap resets (PspAddrBase4K and cbMapped4K stay).
X86ClearedMapping(m) ==
    [ m EXCEPT !.PhysX86AddrBase = NIL_X86PADDR, !.PspAddrBase = 0,
               !.PspAddrCached = 0, !.PspAddrHighestWritten = 0,
               !.pPspCore = FALSE, !.cbAlloc = 0, !.cbMapped = 0,
               !.pvMapping = FALSE ]

\* Bytes mem_write takes from the cache buffer of mapping m: the buffer
\* where it is allocated, indeterminate bytes behind its end.
X86SyncSource(m, buf) ==
    [ a \in Tracked |->
        IF m.pvMapping /\ m.PspAddrBase4K <= a /\ a < m.PspAddrBase4K + m.cbAlloc
        THEN buf[a] ELSE UNDEF ]

\* Length of the write-back: PspAddrHighestWritten - PspAddrBase in uint32_t.
X86CbSync(m) == Sub32(m.PspAddrHighestWritten, m.PspAddrBase)

\* A write-back that starts at the page the mapping starts in.
X86SyncAddrPage(m) == m.PspAddrBase4K

\* PSP address the write-back goes to.
X86SyncAddr(m) == m.PspAddrBase

\* An unmap handler that never writes back.
X86NeedsSyncNever(m) == FALSE

\* Whether the unmap handler writes mapping m back before it frees it.
X86NeedsSync(m) == m.PspAddrHighestWritten /= 0

\* Slot of the proxied PSP that is mapped at uAddr, -1 when there is none.
ProxySlotAt(px, uAddr) ==
    IF \E s \in DOMAIN px :
          px[s] /= NIL_X86PADDR /\ ProxyX86MapAddr(s, px[s]) = uAddr
    THEN CHOOSE s \in DOMAIN px :
            px[s] /= NIL_X86PADDR /\ ProxyX86MapAddr(s, px[s]) = uAddr
    ELSE 0 - 1

\* 0x08: write the cached mapping back, free it, then proxy the unmap;
\* R0 = status of the proxied call.  The proxied PSP answers the unmap: it
\* frees its slot, or rejects an address it has nothing mapped at; a failed
\* write-back is only printed.
pspEmuSvcX86MemUnmap(regs, idxSyscall) ==
    LET uAddr == regs["R0"]
        i == FindX86ByBase(aX86Mappings, uAddr)
        fSync == i >= 0 /\ X86NeedsSync(aX86Mappings[i])
        ps == ProxySlotAt(proxyX86, uAddr)
    IN  \E fWrOk \in BOOLEAN, rcRet \in UndefInt :
          /\ ~fSync => fWrOk
          /\ IF i >= 0
             THEN LET m == aX86Mappings[i]
                  IN  /\ proxyMem' =
                            IF fSync /\ fWrOk
                            THEN ProxyMemWritten(proxyMem, X86SyncAddr(m), X86CbSync(m),
                                                 X86SyncSource(m, pvBuf[i]))
                            ELSE proxyMem
                      /\ pvBuf' = [ pvBuf EXCEPT ![i] = NoBuf ]
                      /\ ucMap' = UcMemUnmap(ucMap, m.PspAddrBase4K, m.cbMapped4K)
                      /\ aX86Mappings' =
                            [ aX86Mappings EXCEPT ![i] = X86ClearedMapping(m) ]
                      /\ lastWritten' = [ lastWritten EXCEPT ![i] = NoHist ]
                      /\ lastFetched' = [ lastFetched EXCEPT ![i] = NoHist ]
             ELSE UNCHANGED << proxyMem, pvBuf, ucMap, aX86Mappings,
                               lastWritten, lastFetched >>
          /\ proxyOps' =
                (IF fSync
                 THEN << OpMemWrite(svc.hProxyCtx, X86SyncAddr(aX86Mappings[i]),
                                    X86CbSync(aX86Mappings[i])) >>
                 ELSE << >>)
                \o << OpSvcCall(svc.hProxyCtx, idxSyscall, uAddr, 0, 0, 0) >>
          /\ proxyX86' = IF ps >= 0
                         THEN [ proxyX86 EXCEPT ![ps] = NIL_X86PADDR ]
                         ELSE proxyX86
          /\ ucRegs' = [ regs EXCEPT !["R0"] =
                           IF ps < 0 THEN ProxyStsError ELSE 0 ]
          /\ lastCall' = CallRec(regs, idxSyscall, rcRet, ~fWrOk)
          /\ lastApi' = NoApi
          /\ UNCHANGED << ucRam, svc >>

\* Scratch area of the proxied PSP (0x20000) and the place the forwarded
\* request block of 0x35 is put at (0x23000).
PspAddrScratch == 131072
PspAddrScratchReq == 143360

\* The record of the uc_mem_read that brought the request block au32Req of
\* a supervisor call in from PspAddrReq.
SvcReqRead(PspAddrReq, au32Req) ==
    [ fn |-> "uc_mem_read", rc |-> 0, args |-> << PspAddrReq, 4 * Len(au32Req) >>,
      out |-> au32Req ]

\* Request blocks the firmware passes to 0x35 (8 words): three buffers of
\* 16 bytes in SRAM, the subtype words au32Req[2], au32Req[3] zero or not.
Svc35Reqs ==
    { << _4K, 16, 0, 0, 2 * _4K, 16, 3 * _4K, 16 >>,
      << _4K, 16, 1, 0, 2 * _4K, 16, 3 * _4K, 16 >> }

\* Request blocks the firmware passes to 0x36 (13 words): four buffers.
Svc36Reqs ==
    { << _4K, 16, 2 * _4K, 16, 0, 3 * _4K, 16, 0, 4 * _4K, 16, 0, 0, 0 >> }

\* Status words the proxied PSP answers a forwarded call with.
ProxyStsVals == { 0, ProxyStsError }

\* 0x35: copy the three buffers of the request to the proxy's scratch area,
\* forward the call with the rewritten request, copy the buffers back when
\* it succeeded; R0 = status.  The buffers and the scratch area lie outside
\* the tracked bytes.
pspEmuSvc0x35Unk(regs, idxSyscall) ==
    \E au32Req \in Svc35Reqs, fProxyOk \in BOOLEAN, uStsProxy \in ProxyStsVals,
       rcRet \in UndefInt :
      LET fKnown == au32Req[3] = 0 /\ au32Req[4] = 0
          PspAddrProxy1 == PspAddrScratch
          PspAddrProxy2 == PspAddrProxy1 + au32Req[2]
          PspAddrProxy3 == PspAddrProxy2 + au32Req[6]
          fSynced == fProxyOk /\ uStsProxy = 0
          uSts == IF ~fKnown \/ ~fProxyOk
                  THEN PSPSTATUS_GENERAL_MEMORY_ERROR ELSE uStsProxy
      IN  /\ proxyOps' =
                IF fKnown
                THEN << OpMemWrite(svc.hProxyCtx, PspAddrProxy1, au32Req[2]),
                        OpMemWrite(svc.hProxyCtx, PspAddrProxy2, au32Req[6]),
                        OpMemWrite(svc.hProxyCtx, PspAddrProxy3, au32Req[8]),
                        OpMemWrite(svc.hProxyCtx, PspAddrScratchReq, 8 * 4),
                        OpSvcCall(svc.hProxyCtx, idxSyscall, PspAddrScratchReq,
                                  0, 0, 0) >>
                     \o (IF fSynced
                         THEN << OpMemRead(svc.hProxyCtx, PspAddrProxy1, au32Req[2]),
                                 OpMemRead(svc.hProxyCtx, PspAddrProxy2, au32Req[6]),
                                 OpMemRead(svc.hProxyCtx, PspAddrProxy3, au32Req[8]) >>
                         ELSE << >>)
                ELSE << >>
          /\ ucRegs' = [ regs EXCEPT !["R0"] = uSts ]
          /\ lastCall' = CallRec(regs, idxSyscall, rcRet, fKnown /\ ~fProxyOk)
          /\ lastApi' = NoApi
          /\ UNCHANGED MemVars

\* 0x36: the same with four buffers; the request block goes behind the
\* last buffer; R0 = status of the proxied call, 0x9 when the call failed.
pspEmuSvc0x36Unk(regs, idxSyscall) ==
    \E au32Req \in Svc36Reqs, fProxyOk \in BOOLEAN, uStsProxy \in ProxyStsVals,
       rcRet \in UndefInt :
      LET PspAddrProxy1 == PspAddrScratch
          PspAddrProxy2 == PspAddrProxy1 + au32Req[2]
          PspAddrProxy3 == PspAddrProxy2 + au32Req[4]
          PspAddrProxy4 == PspAddrProxy3 + au32Req[7]
          PspAddrReq == PspAddrProxy4 + au32Req[10]
          fSynced == fProxyOk /\ uStsProxy = 0
          uSts == IF ~fProxyOk THEN PSPSTATUS_GENERAL_MEMORY_ERROR ELSE uStsProxy
      IN  /\ proxyOps' =
                << OpMemWrite(svc.hProxyCtx, PspAddrProxy1, au32Req[2]),
                   OpMemWrite(svc.hProxyCtx, PspAddrProxy2, au32Req[4]),
                   OpMemWrite(svc.hProxyCtx, PspAddrProxy3, au32Req[7]),
                   OpMemWrite(svc.hProxyCtx, PspAddrProxy4, au32Req[10]),
                   OpMemWrite(svc.hProxyCtx, PspAddrReq, 13 * 4),
                   OpSvcCall(svc.hProxyCtx, idxSyscall, PspAddrReq, 0, 0, 0) >>
                \o (IF fSynced
                    THEN << OpMemRead(svc.hProxyCtx, PspAddrProxy1, au32Req[2]),
                            OpMemRead(svc.hProxyCtx, PspAddrProxy2, au32Req[4]),
                            OpMemRead(svc.hProxyCtx, PspAddrProxy3, au32Req[7]),
                            OpMemRead(svc.hProxyCtx, PspAddrProxy4, au32Req[10]) >>
                    ELSE << >>)
          /\ ucRegs' = [ regs EXCEPT !["R0"] = uSts ]
          /\ lastCall' = CallRec(regs, idxSyscall, rcRet, ~fProxyOk)
          /\ lastApi' = SvcReqRead(regs["R0"], au32Req)
          /\ UNCHANGED MemVars

\* ------------------------------------------------------------ forwarded calls

\* Records of proxy operations together with what they returned: the rc of
\* the library call, the status word of the proxied PSP, the bytes moved.
OpSvcCallSts(ctx, idx, a0, a1, a2, a3, rc, uSts) ==
    [ op |-> "svc_call", ctx |-> ctx, idx |-> idx, args |-> << a0, a1, a2, a3 >>,
      rc |-> rc, uSts |-> uSts ]
OpMemWriteData(ctx, addr, data, rc) ==
    [ op |-> "mem_write", ctx |-> ctx, addr |-> addr, cb |-> Len(data),
      rc |-> rc, data |-> data ]
OpMemReadData(ctx, addr, data, rc) ==
    [ op |-> "mem_read", ctx |-> ctx, addr |-> addr, cb |-> Len(data),
      rc |-> rc, data |-> data ]

\* rc of a proxy library call.
ProxyRc(fOk) == IF fOk THEN 0 ELSE 0 - 1

\* The status words a call can come back with, and the byte strings a read
\* can bring, given whether the operation happens and succeeds; one value
\* stands for the outcomes nothing depends on.
ProxyStsOf(fCallOk) == IF fCallOk THEN ProxyStsVals ELSE { 0 }
ProxyOkOf(fIssued) == IF fIssued THEN BOOLEAN ELSE { TRUE }

\* Byte strings the proxied PSP leaves in its scratch area.
ProxyScratchData(cb) ==
    { [ i \in 1 .. cb |-> (17 * i) % 256 ], [ i \in 1 .. cb |-> 0 ] }

\* cb bytes nobody initialised (malloc) and cb zero bytes (= 0 initialiser).
UndefBytes(cb) == [ i \in 1 .. cb |-> UNDEF ]
ZeroBytes(cb) == [ i \in 1 .. cb |-> 0 ]

ProxyDataOf(fRead, cb) == IF fRead THEN ProxyScratchData(cb) ELSE { ZeroBytes(cb) }

\* A store that reports success and leaves the memory as it was.
UcMemWriteBytesDropped(map, ram, addr, data) ==
    [ ok |-> UcMemMapped(map, addr, Len(data)), ram |-> ram ]

\* uc_mem_write of the bytes data at addr: [ok, ram].
UcMemWriteBytes(map, ram, addr, data) ==
    IF UcMemMapped(map, addr, Len(data))
    THEN [ ok |-> TRUE,
           ram |-> [ a \in DOMAIN ram |->
                       IF addr <= a /\ a < addr + Len(data)
                       THEN data[(a - addr) + 1] ELSE ram[a] ] ]
    ELSE [ ok |-> FALSE, ram |-> ram ]

\* uc_mem_write of cb bytes whose values are not tracked: [ok, ram].
UcMemWriteUndef(map, ram, addr, cb) ==
    IF UcMemMapped(map, addr, cb)
    THEN [ ok |-> TRUE,
           ram |-> [ a \in DOMAIN ram |->
                       IF addr <= a /\ a < addr + cb THEN UNDEF ELSE ram[a] ] ]
    ELSE [ ok |-> FALSE, ram |-> ram ]

\* uc_mem_read of cb bytes at addr into a buffer holding pvOld: [ok, data].
\* The ranges read here lie in the tracked bytes or in unmapped memory.
UcMemReadBytes(map, ram, addr, cb, pvOld) ==
    IF UcMemMapped(map, addr, cb)
    THEN [ ok |-> TRUE,
           data |-> [ i \in 1 .. cb |->
                        IF (addr + i) - 1 \in DOMAIN ram
                        THEN ram[(addr + i) - 1] ELSE 0 ] ]
    ELSE [ ok |-> FALSE, data |-> pvOld ]

\* 0x28: forward id and argument; when R2 is not NULL the proxied PSP is
\* told to leave its answer in the scratch area, which is read back and
\* stored at *R2; R0 = status.  A failed call is only printed.
pspEmuSvcSmuMsg(regs, idxSyscall) ==
    \E fCallOk \in BOOLEAN, rcRet \in UndefInt :
    \E uStsProxy \in ProxyStsOf(fCallOk), fReadOk \in ProxyOkOf(regs["R2"] /= 0) :
    \E u32Ret \in ProxyDataOf(regs["R2"] /= 0 /\ fReadOk, 4) :
      LET idMsg == regs["R0"]
          uArg0 == regs["R1"]
          UsrPtrReturnMsg == regs["R2"]
          uSts == IF fCallOk THEN uStsProxy ELSE 0
          wr == IF UsrPtrReturnMsg /= 0 /\ fReadOk
                THEN UcMemWriteBytes(ucMap, ucRam, UsrPtrReturnMsg, u32Ret)
                ELSE [ ok |-> TRUE, ram |-> ucRam ]
      IN  /\ proxyOps' =
                << OpSvcCallSts(svc.hProxyCtx, idxSyscall, idMsg, uArg0,
                                IF UsrPtrReturnMsg /= 0 THEN PspAddrScratch ELSE 0,
                                0, ProxyRc(fCallOk), uSts) >>
                \o (IF UsrPtrReturnMsg /= 0
                    THEN << OpMemReadData(svc.hProxyCtx, PspAddrScratch,
                                          IF fReadOk THEN u32Ret ELSE ZeroBytes(4),
                                          ProxyRc(fReadOk)) >>
                    ELSE << >>)
          /\ ucRegs' = [ regs EXCEPT !["R0"] = uSts ]
          /\ ucRam' = wr.ram
          /\ lastCall' = CallRec(regs, idxSyscall, rcRet,
                                 ~fCallOk \/ (UsrPtrReturnMsg /= 0 /\ ~fReadOk))
          /\ lastApi' = NoApi
          /\ UNCHANGED << ucMap, aX86Mappings, pvBuf, svc, proxyMem, proxyX86,
                          lastWritten, lastFetched >>

\* 0x32: copy the buffer (R0, R1 bytes) to the scratch area, forward the
\* call, copy the scratch area back when the call succeeded with status 0;
\* R0 = status, 0x9 when the call failed.  The results of the transfers
\* are not looked at.
pspEmuSvc0x32Unk(regs, idxSyscall) ==
    \E fWriteOk \in BOOLEAN, fCallOk \in BOOLEAN, rcRet \in UndefInt :
    \E uStsProxy \in ProxyStsOf(fCallOk) :
    \E fReadOk \in ProxyOkOf(fCallOk /\ uStsProxy = 0) :
    \E pvOut \in ProxyDataOf(fCallOk /\ uStsProxy = 0 /\ fReadOk, regs["R1"]) :
      LET PspAddrUnk == regs["R0"]
          cbUnk == regs["R1"]
          rd == UcMemReadBytes(ucMap, ucRam, PspAddrUnk, cbUnk, UndefBytes(cbUnk))
          fSynced == fCallOk /\ uStsProxy = 0
          pvTmp == IF fReadOk THEN pvOut ELSE rd.data
          uSts == IF fCallOk THEN uStsProxy ELSE PSPSTATUS_GENERAL_MEMORY_ERROR
          wr == IF fSynced
                THEN UcMemWriteBytes(ucMap, ucRam, PspAddrUnk, pvTmp)
                ELSE [ ok |-> TRUE, ram |-> ucRam ]
      IN  /\ proxyOps' =
                << OpMemWriteData(svc.hProxyCtx, PspAddrScratch, rd.data,
                                  ProxyRc(fWriteOk)),
                   OpSvcCallSts(svc.hProxyCtx, idxSyscall, PspAddrScratch, cbUnk,
                                0, 0, ProxyRc(fCallOk), IF fCallOk THEN uStsProxy ELSE 0) >>
                \o (IF fSynced
                    THEN << OpMemReadData(svc.hProxyCtx, PspAddrScratch, pvTmp,
                                          ProxyRc(fReadOk)) >>
                    ELSE << >>)
          /\ ucRegs' = [ regs EXCEPT !["R0"] = uSts ]
          /\ ucRam' = wr.ram
          /\ lastCall' = CallRec(regs, idxSyscall, rcRet,
                                 ~fWriteOk \/ ~fCallOk \/ (fSynced /\ ~fReadOk))
          /\ lastApi' = NoApi
          /\ UNCHANGED << ucMap, aX86Mappings, pvBuf, svc, proxyMem, proxyX86,
                          lastWritten, lastFetched >>

\* The scratch address 0x33 uses (0x21e2c).
PspAddrScratch0x33 == 138796

\* 0x33: as 0x32 at another scratch address, with the transfers checked:
\* a failed copy to or from the proxied PSP gives R0 = 0x9; a failed call
\* is only printed and leaves the status as it was initialised.
pspEmuSvc0x33Unk(regs, idxSyscall) ==
    \E fAllocOk \in BOOLEAN, rcRet \in UndefInt :
    \E fWriteOk \in ProxyOkOf(fAllocOk) :
    \E fCallOk \in ProxyOkOf(fAllocOk /\ fWriteOk) :
    \E uStsProxy \in ProxyStsOf(fAllocOk /\ fWriteOk /\ fCallOk) :
    \E fReadOk \in ProxyOkOf(fAllocOk /\ fWriteOk /\ fCallOk /\ uStsProxy = 0) :
    \E pvOut \in ProxyDataOf(fAllocOk /\ fWriteOk /\ fCallOk /\ uStsProxy = 0
                                 /\ fReadOk, regs["R1"]) :
      LET PspAddrUnk == regs["R0"]
          cbUnk == regs["R1"]
          rd == UcMemReadBytes(ucMap, ucRam, PspAddrUnk, cbUnk, UndefBytes(cbUnk))
          uStsCall == IF fCallOk THEN uStsProxy ELSE 0
          fCalled == fAllocOk /\ fWriteOk
          fReadBack == fCalled /\ fCallOk /\ uStsProxy = 0
          uSts == IF ~fAllocOk \/ ~fWriteOk THEN PSPSTATUS_GENERAL_MEMORY_ERROR
                  ELSE IF fReadBack /\ ~fReadOk THEN PSPSTATUS_GENERAL_MEMORY_ERROR
                  ELSE uStsCall
          wr == IF fReadBack /\ fReadOk
                THEN UcMemWriteBytes(ucMap, ucRam, PspAddrUnk, pvOut)
                ELSE [ ok |-> TRUE, ram |-> ucRam ]
      IN  /\ proxyOps' =
                (IF fAllocOk
                 THEN << OpMemWriteData(svc.hProxyCtx, PspAddrScratch0x33, rd.data,
                                        ProxyRc(fWriteOk)) >>
                 ELSE << >>)
                \o (IF fCalled
                    THEN << OpSvcCallSts(svc.hProxyCtx, idxSyscall,
                                         PspAddrScratch0x33, cbUnk, 0, 0,
                                         ProxyRc(fCallOk), uStsCall) >>
                    ELSE << >>)
                \o (IF fReadBack
                    THEN << OpMemReadData(svc.hProxyCtx, PspAddrScratch0x33,
                                          IF fReadOk THEN pvOut ELSE rd.data,
                                          ProxyRc(fReadOk)) >>
                    ELSE << >>)
          /\ ucRegs' = [ regs EXCEPT !["R0"] = uSts ]
          /\ ucRam' = wr.ram
          /\ lastCall' = CallRec(regs, idxSyscall, rcRet,
                                 ~fAllocOk \/ ~fWriteOk \/ ~fCallOk
                                    \/ (fReadBack /\ ~fReadOk))
          /\ lastApi' = NoApi
          /\ UNCHANGED << ucMap, aX86Mappings, pvBuf, svc, proxyMem, proxyX86,
                          lastWritten, lastFetched >>

\* 0x39: the buffer is not copied to the proxied PSP; the call is forwarded
\* with the scratch address, the scratch area is copied to the buffer when
\* the call succeeded with status 0; R0 = status, 0x9 when the call failed.
\* When the read back fails the buffer receives what malloc left in pvTmp.
pspEmuSvcRng(regs, idxSyscall) ==
    \E fCallOk \in BOOLEAN, rcRet \in UndefInt :
    \E uStsProxy \in ProxyStsOf(fCallOk) :
    \E fReadOk \in ProxyOkOf(fCallOk /\ uStsProxy = 0) :
    \E pvOut \in ProxyDataOf(fCallOk /\ uStsProxy = 0 /\ fReadOk, regs["R1"]) :
      LET PspAddrBuf == regs["R0"]
          cbBuf == regs["R1"]
          fSynced == fCallOk /\ uStsProxy = 0
          pvTmp == IF fReadOk THEN pvOut ELSE UndefBytes(cbBuf)
          uSts == IF fCallOk THEN uStsProxy ELSE PSPSTATUS_GENERAL_MEMORY_ERROR
          wr == IF fSynced
                THEN UcMemWriteBytes(ucMap, ucRam, PspAddrBuf, pvTmp)
                ELSE [ ok |-> TRUE, ram |-> ucRam ]
      IN  /\ proxyOps' =
                << OpSvcCallSts(svc.hProxyCtx, idxSyscall, PspAddrScratch, cbBuf,
                                0, 0, ProxyRc(fCallOk), IF fCallOk THEN uStsProxy ELSE 0) >>
                \o (IF fSynced
                    THEN << OpMemReadData(svc.hProxyCtx, PspAddrScratch, pvTmp,
                                          ProxyRc(fReadOk)) >>
                    ELSE << >>)
          /\ ucRegs' = [ regs EXCEPT !["R0"] = uSts ]
          /\ ucRam' = wr.ram
          /\ lastCall' = CallRec(regs, idxSyscall, rcRet,
                                 ~fCallOk \/ (fSynced /\ ~fReadOk))
          /\ lastApi' = NoApi
          /\ UNCHANGED << ucMap, aX86Mappings, pvBuf, svc, proxyMem, proxyX86,
                          lastWritten, lastFetched >>

\* The second scratch address 0x48 uses (0x21000).
PspAddrScratchSize == 135168

\* 0x48: forward the call with two scratch addresses, read 8 bytes from
\* each (a failed read leaves the zero the variable was initialised with)
\* and store them at the pointers in R0 and R1.  No register is written.
pspEmuSvcQuerySmmRegion(regs, idxSyscall) ==
    \E fCallOk \in BOOLEAN, fReadOk1 \in BOOLEAN, fReadOk2 \in BOOLEAN,
       rcRet \in UndefInt :
    \E uStsProxy \in ProxyStsOf(fCallOk), pvStart \in ProxyDataOf(fReadOk1, 8),
       pvSize \in ProxyDataOf(fReadOk2, 8) :
      LET UsrPtrSmmRegionStart == regs["R0"]
          UsrPtrSmmRegionSize == regs["R1"]
          PhysX86AddrSmmRegionStart == IF fReadOk1 THEN pvStart ELSE ZeroBytes(8)
          SmmRegionSize == IF fReadOk2 THEN pvSize ELSE ZeroBytes(8)
          wr1 == UcMemWriteBytes(ucMap, ucRam, UsrPtrSmmRegionStart,
                                 PhysX86AddrSmmRegionStart)
          wr2 == UcMemWriteBytes(ucMap, wr1.ram, UsrPtrSmmRegionSize, SmmRegionSize)
      IN  /\ proxyOps' =
                << OpSvcCallSts(svc.hProxyCtx, idxSyscall, PspAddrScratch,
                                PspAddrScratchSize, 0, 0, ProxyRc(fCallOk),
                                IF fCallOk THEN uStsProxy ELSE 0),
                   OpMemReadData(svc.hProxyCtx, PspAddrScratch,
                                 PhysX86AddrSmmRegionStart, ProxyRc(fReadOk1)),
                   OpMemReadData(svc.hProxyCtx, PspAddrScratchSize,
                                 SmmRegionSize, ProxyRc(fReadOk2)) >>
          /\ ucRegs' = regs
          /\ ucRam' = wr2.ram
          /\ lastCall' = CallRec(regs, idxSyscall, rcRet,
                                 ~fCallOk \/ ~fReadOk1 \/ ~fReadOk2)
          /\ lastApi' = NoApi
          /\ UNCHANGED << ucMap, aX86Mappings, pvBuf, svc, proxyMem, proxyX86,
                          lastWritten, lastFetched >>

\* Addresses 0x41 works with: the user stack it syncs (0x60000, 2 pages),
\* the curve constants (0x1c6ac), and the scratch places for the constants
\* (0x22000) and for a buffer outside the stack (0x22500).
PspAddrUsrStack == 393216
PspAddrCurve == 116396
PspAddrScratchCurve == 139264
PspAddrScratchBuf == 140544

\* Request blocks the firmware passes to 0x41 (8 words): one of each
\* subtype the handler knows (1, 5, 3, 2 with the buffer of word 3 on the
\* stack, 2 with that buffer in SRAM), and three it does not know.
Svc41Reqs ==
    { << 1, PspAddrUsrStack + 16, SvcBufBase, PspAddrUsrStack + 32,
         PspAddrUsrStack + 48, 0, 0, 0 >>,
      << 5, PspAddrUsrStack + 16, PspAddrCurve, PspAddrCurve + 16,
         PspAddrUsrStack + 32, PspAddrCurve + 32, 0, 0 >>,
      << 3, PspAddrUsrStack + 16, PspAddrCurve, PspAddrUsrStack + 32, 0, 0, 0, 0 >>,
      << 2, PspAddrUsrStack + 16, PspAddrCurve, PspAddrUsrStack + 32,
         PspAddrUsrStack + 48, 0, 0, 0 >>,
      << 2, PspAddrUsrStack + 16, PspAddrCurve, SvcBufBase,
         PspAddrUsrStack + 48, 0, 0, 0 >>,
      << 0, PspAddrUsrStack + 16, PspAddrCurve, SvcBufBase, 0, 0, 0, 0 >>,
      << 4, PspAddrUsrStack + 16, PspAddrCurve, SvcBufBase, 0, 0, 0, 0 >>,
      << 7, PspAddrUsrStack + 16, PspAddrCurve, SvcBufBase, 0, 0, 0, 0 >> }

\* The subtypes 0x41 forwards.
Svc41Known == { 1, 5, 3, 2 }

\* au32ReqProxy: the request block as it is forwarded.  Svc41Stack is an
\* address on the user stack in the scratch copy of the stack, Svc41Curve
\* an address in the curve constants in their scratch copy.
Svc41ReqProxy(au32Req) ==
    LET Svc41Stack(addr) ==
            (PspAddrScratch + Sub32(addr, PspAddrUsrStack)) % U32
        Svc41Curve(addr) ==
            (PspAddrScratchCurve + Sub32(addr, PspAddrCurve)) % U32
    IN  IF au32Req[1] = 1
        THEN << 1, Svc41Stack(au32Req[2]), PspAddrScratchCurve,
                Svc41Stack(au32Req[4]), Svc41Stack(au32Req[5]), 0, 0, 0 >>
        ELSE IF au32Req[1] = 5
        THEN << 5, Svc41Stack(au32Req[2]), Svc41Curve(au32Req[3]),
                Svc41Curve(au32Req[4]), Svc41Stack(au32Req[5]),
                Svc41Curve(au32Req[6]), 0, 0 >>
        ELSE IF au32Req[1] = 3
        THEN << 3, Svc41Stack(au32Req[2]), Svc41Curve(au32Req[3]),
                Svc41Stack(au32Req[4]), 0, 0, 0, 0 >>
        ELSE << 2, Svc41Stack(au32Req[2]), Svc41Curve(au32Req[3]),
                IF au32Req[4] < PspAddrUsrStack
                THEN PspAddrScratchBuf ELSE Svc41Stack(au32Req[4]),
                Svc41Stack(au32Req[5]), 0, 0, 0 >>

\* 0x41: a request of a known subtype is forwarded: the user stack and the
\* curve constants go to the scratch area, the rewritten request to
\* 0x23000; after a call that succeeded with status 0 the stack (and for
\* subtype 2 a buffer outside the stack) is copied back.  Any other subtype
\* gives R0 = 0x9 with nothing else done.  The results of the transfers are
\* not looked at; a buffer whose read back failed holds indeterminate bytes.
pspEmuSvc0x41Unk(regs, idxSyscall) ==
    \E au32Req \in Svc41Reqs, rcRet \in UndefInt :
    \E fCallOk \in ProxyOkOf(au32Req[1] \in Svc41Known) :
    \E uStsProxy \in ProxyStsOf(au32Req[1] \in Svc41Known /\ fCallOk) :
      LET fKnown == au32Req[1] \in Svc41Known
          fOffStack == au32Req[1] = 2 /\ au32Req[4] < PspAddrUsrStack
          fSynced == fKnown /\ fCallOk /\ uStsProxy = 0
          cbCurve == IF au32Req[1] = 1 THEN 144 ELSE 508
          uSts == IF ~fKnown \/ ~fCallOk
                  THEN PSPSTATUS_GENERAL_MEMORY_ERROR ELSE uStsProxy
      IN  \E pvBufOut \in (IF fSynced /\ fOffStack
                            THEN ProxyScratchData(1024) \cup { UndefBytes(1024) }
                            ELSE { << >> }) :
          LET wrStack == IF fSynced
                         THEN UcMemWriteUndef(ucMap, ucRam, PspAddrUsrStack, 2 * _4K)
                         ELSE [ ok |-> TRUE, ram |-> ucRam ]
              wrBuf == IF fSynced /\ fOffStack
                       THEN UcMemWriteBytes(ucMap, wrStack.ram, au32Req[4], pvBufOut)
                       ELSE wrStack
          IN  /\ proxyOps' =
                    IF fKnown
                    THEN << OpMemWrite(svc.hProxyCtx, PspAddrScratch, 2 * _4K),
                            OpMemWrite(svc.hProxyCtx, PspAddrScratchCurve, cbCurve) >>
                         \o (IF fOffStack
                             THEN << OpMemWrite(svc.hProxyCtx, PspAddrScratchBuf, 1024) >>
                             ELSE << >>)
                         \o << OpMemWriteData(svc.hProxyCtx, PspAddrScratchReq,
                                               Svc41ReqProxy(au32Req), 0),
                               OpSvcCallSts(svc.hProxyCtx, idxSyscall,
                                            PspAddrScratchReq, 0, 0, 0,
                                            ProxyRc(fCallOk),
                                            IF fCallOk THEN uStsProxy ELSE 0) >>
                         \o (IF fSynced
                             THEN << OpMemRead(svc.hProxyCtx, PspAddrScratch, 2 * _4K) >>
                             ELSE << >>)
                         \o (IF fSynced /\ fOffStack
                             THEN << OpMemRead(svc.hProxyCtx, PspAddrScratchBuf, 1024) >>
                             ELSE << >>)
                    ELSE << >>
              /\ ucRegs' = [ regs EXCEPT !["R0"] = uSts ]
              /\ ucRam' = wrBuf.ram
              /\ lastCall' = CallRec(regs, idxSyscall, rcRet, fKnown /\ ~fCallOk)
              /\ lastApi' = SvcReqRead(regs["R0"], au32Req)
              /\ UNCHANGED << ucMap, aX86Mappings, pvBuf, svc, proxyMem, proxyX86,
                              lastWritten, lastFetched >>

\* The fake x86 address of the state region (0xdeadd0d0, modulo U32) and
\* the tag of its region in the engine's memory map.
PhysX86AddrPrivState == 514707664
PrivStateSlot == 8

\* The mapping record 0x3c fills in for a state region at uAddr.
X86PrivStateMapping(uAddr) ==
    [ pPspCore |-> TRUE, PhysX86AddrBase |-> PhysX86AddrPrivState,
      PspAddrBase4K |-> AlignDown4K(uAddr), PspAddrBase |-> uAddr,
      PspAddrCached |-> 0, PspAddrHighestWritten |-> 0,
      cbMapped |-> X86CbMapped(uAddr),
      cbMapped4K |-> X86CbMapped4K(X86CbMapped(uAddr)),
      cbAlloc |-> X86CbMapped4K(X86CbMapped(uAddr)), pvMapping |-> TRUE ]

\* 0x3c: ask the proxied PSP for the state region of R0 bytes; when the
\* private mapping's PhysX86AddrBase is NIL_X86PADDR fill the mapping in,
\* remember the size and map the buffer into the engine; R0 = the address
\* the proxied PSP answered, here 0x14000100 (0 as initialised when the
\* call failed).
pspEmuSvcQuerySaveStateRegion(regs, idxSyscall) ==
    \E fCallOk \in BOOLEAN, rcRet \in UndefInt :
    \E uStateRegionAddr \in (IF fCallOk THEN { (5 * _64M) + 256 } ELSE { 0 }) :
      LET cbStateRegion == regs["R0"]
          pMapping == svc.X86MappingPrivState
          fInit == pMapping.PhysX86AddrBase = NIL_X86PADDR
          new == X86PrivStateMapping(uStateRegionAddr)
      IN  /\ proxyOps' = << OpSvcCallSts(svc.hProxyCtx, idxSyscall, cbStateRegion,
                                         0, 0, 0, ProxyRc(fCallOk),
                                         uStateRegionAddr) >>
          /\ svc' = IF fInit
                    THEN [ svc EXCEPT !.X86MappingPrivState = new,
                                      !.cbStateRegion = cbStateRegion ]
                    ELSE svc
          /\ ucMap' = IF fInit
                      THEN UcMmioMap(ucMap, new.PspAddrBase4K, new.cbMapped4K,
                                     PrivStateSlot)
                      ELSE ucMap
          /\ ucRegs' = [ regs EXCEPT !["R0"] = uStateRegionAddr ]
          /\ lastCall' = CallRec(regs, idxSyscall, rcRet, ~fCallOk)
          /\ lastApi' = NoApi
          /\ UNCHANGED << ucRam, aX86Mappings, pvBuf, proxyMem, proxyX86,
                          lastWritten, lastFetched >>

\* 0x03: forward the SMN address (R0) and the CCD (R1); R0 = the address
\* the proxied PSP mapped it at, here 0x3c000000 (0 as initialised when the
\* call failed).
pspEmuSvcSmnMapEx(regs, idxSyscall) ==
    \E fCallOk \in BOOLEAN, rcRet \in UndefInt :
    \E uSmnAddrMapped \in (IF fCallOk THEN { 15 * _64M } ELSE { 0 }) :
        /\ proxyOps' = << OpSvcCallSts(svc.hProxyCtx, idxSyscall, regs["R0"],
                                       regs["R1"], 0, 0, ProxyRc(fCallOk),
                                       uSmnAddrMapped) >>
        /\ ucRegs' = [ regs EXCEPT !["R0"] = uSmnAddrMapped ]
        /\ lastCall' = CallRec(regs, idxSyscall, rcRet, ~fCallOk)
        /\ lastApi' = NoApi
        /\ UNCHANGED MemVars

\* 0x04: the body is empty.
pspEmuSvcSmnMap(regs, idxSyscall) == SvcEmptyBody(regs, idxSyscall)

\* 0x05: forward the address (R0); R0 = status.
pspEmuSvcSmnUnmap(regs, idxSyscall) ==
    \E fCallOk \in BOOLEAN, rcRet \in UndefInt :
    \E uStsProxy \in ProxyStsOf(fCallOk) :
        /\ proxyOps' = << OpSvcCallSts(svc.hProxyCtx, idxSyscall, regs["R0"],
                                       0, 0, 0, ProxyRc(fCallOk), uStsProxy) >>
        /\ ucRegs' = [ regs EXCEPT !["R0"] = uStsProxy ]
        /\ lastCall' = CallRec(regs, idxSyscall, rcRet, ~fCallOk)
        /\ lastApi' = NoApi
        /\ UNCHANGED MemVars

\* 0x06: the string at R0 is read and printed; nothing is written.
pspEmuSvcDbgLog(regs, idxSyscall) == SvcEmptyBody(regs, idxSyscall)

\* 0x09, 0x0a: the bodies are empty.
pspEmuSvcX86CopyToPsp(regs, idxSyscall) == SvcEmptyBody(regs, idxSyscall)
pspEmuSvcX86CopyFromPsp(regs, idxSyscall) == SvcEmptyBody(regs, idxSyscall)

\* Scratch places of 0x38: the request goes to 0x20000, the buffers to
\* 0x22000, 0x21100 and 0x21200.
PspAddrScratch38Buf0 == 139264
PspAddrScratch38Buf1 == 135424
PspAddrScratch38Buf2 == 135680

\* Request blocks the firmware passes to 0x38: the kind the handler
\* forwards (dwUnk1 = 2, cbBufUnk1 = 0x20) with all three buffers and with
\* the second one only, and one of another kind.
Svc38Reqs ==
    { [ PspAddrBufUnk0 |-> _4K, cbBufUnk0 |-> 16, dwUnk1 |-> 2,
        PspAddrBufUnk1 |-> 2 * _4K, cbBufUnk1 |-> 32, PspAddrBufUnk2 |-> 3 * _4K ],
      [ PspAddrBufUnk0 |-> 0, cbBufUnk0 |-> 0, dwUnk1 |-> 2,
        PspAddrBufUnk1 |-> 2 * _4K, cbBufUnk1 |-> 32, PspAddrBufUnk2 |-> 0 ],
      [ PspAddrBufUnk0 |-> _4K, cbBufUnk0 |-> 16, dwUnk1 |-> 1,
        PspAddrBufUnk1 |-> 2 * _4K, cbBufUnk1 |-> 32, PspAddrBufUnk2 |-> 3 * _4K ] }

\* The buffers of a 0x38 request that are there, in the order they are
\* synced: << PSP address, scratch address, length >>.
Svc38Bufs(Req) ==
    (IF Req.PspAddrBufUnk0 /= 0
     THEN << << Req.PspAddrBufUnk0, PspAddrScratch38Buf0, Req.cbBufUnk0 >> >>
     ELSE << >>)
    \o (IF Req.PspAddrBufUnk1 /= 0
        THEN << << Req.PspAddrBufUnk1, PspAddrScratch38Buf1, Req.cbBufUnk1 >> >>
        ELSE << >>)
    \o (IF Req.PspAddrBufUnk2 /= 0
        THEN << << Req.PspAddrBufUnk2, PspAddrScratch38Buf2, 32 >> >>
        ELSE << >>)

\* Engine RAM after the buffers bufs[k .. ] were written back.
RECURSIVE Svc38WrittenBack(_, _, _, _)
Svc38WrittenBack(map, ram, bufs, k) ==
    IF k > Len(bufs) THEN ram
    ELSE Svc38WrittenBack(map,
                          UcMemWriteUndef(map, ram, bufs[k][1], bufs[k][3]).ram,
                          bufs, k + 1)

\* 0x38: a request of the known kind is forwarded: the rewritten request
\* and the buffers go to the scratch area until a transfer fails, then the
\* call is made; after a call that succeeded with status 0 the buffers are
\* copied back.  R0 = status, 0x9 for another kind of request, a failed
\* transfer to the proxied PSP or a failed call.
pspEmuSvc0x38Unk(regs, idxSyscall) ==
    \E Req \in Svc38Reqs, rcRet \in UndefInt :
      LET fKnown == Req.dwUnk1 = 2 /\ Req.cbBufUnk1 = 32
          bufs == Svc38Bufs(Req)
          writes == << OpMemWrite(svc.hProxyCtx, PspAddrScratch, 9 * 4) >>
                    \o [ k \in 1 .. Len(bufs) |->
                           OpMemWrite(svc.hProxyCtx, bufs[k][2], bufs[k][3]) ]
      IN  \E cWritesOk \in (IF fKnown THEN 0 .. Len(writes) ELSE { 0 }) :
          \E fCallOk \in ProxyOkOf(fKnown /\ cWritesOk = Len(writes)) :
          \E uStsProxy \in ProxyStsOf(fKnown /\ cWritesOk = Len(writes) /\ fCallOk) :
            LET fCalled == fKnown /\ cWritesOk = Len(writes)
                fSynced == fCalled /\ fCallOk /\ uStsProxy = 0
                uSts == IF ~fCalled \/ ~fCallOk
                        THEN PSPSTATUS_GENERAL_MEMORY_ERROR ELSE uStsProxy
            IN  /\ proxyOps' =
                      IF ~fKnown THEN << >>
                      ELSE IF ~fCalled THEN SubSeq(writes, 1, cWritesOk + 1)
                      ELSE writes
                           \o << OpSvcCallSts(svc.hProxyCtx, idxSyscall,
                                              PspAddrScratch, 0, 0, 0,
                                              ProxyRc(fCallOk),
                                              IF fCallOk THEN uStsProxy ELSE 0) >>
                           \o (IF fSynced
                               THEN [ k \in 1 .. Len(bufs) |->
                                        OpMemRead(svc.hProxyCtx, bufs[k][2], bufs[k][3]) ]
                               ELSE << >>)
                /\ ucRegs' = [ regs EXCEPT !["R0"] = uSts ]
                /\ ucRam' = IF fSynced
                            THEN Svc38WrittenBack(ucMap, ucRam, bufs, 1)
                            ELSE ucRam
                /\ lastCall' = CallRec(regs, idxSyscall, rcRet,
                                       fKnown /\ (~fCalled \/ ~fCallOk))
                /\ lastApi' = SvcReqRead(regs["R0"], << Req.PspAddrBufUnk0,
                                  Req.cbBufUnk0, Req.dwUnk1, Req.PspAddrBufUnk1,
                                  Req.cbBufUnk1, Req.PspAddrBufUnk2, 0, 0, 0 >>)
                /\ UNCHANGED << ucMap, aX86Mappings, pvBuf, svc, proxyMem,
                                proxyX86, lastWritten, lastFetched >>

\* The four bytes of a 32-bit value, least significant first.
U32Bytes(uVal) == [ i \in 1 .. 4 |-> ByteOf(uVal, i - 1) ]

\* 0x42: the buffer at R0, of the size found at *R1, and the size go to
\* the scratch area; the call is forwarded; size and buffer are read back
\* and stored at *R1 and R0 whatever the call returned; R0 = status.  No
\* result of a transfer is looked at; what a failed read leaves in the
\* buffer is not tracked.  The firmware's size word and the size the
\* proxied PSP answers with are 0 or 4.
pspEmuSvc0x42Unk(regs, idxSyscall) ==
    \E cbUnk \in { 0, 4 }, fCallOk \in BOOLEAN, fReadOk \in BOOLEAN,
       rcRet \in UndefInt :
    \E uStsProxy \in ProxyStsOf(fCallOk), cbOut \in { 0, 4 } :
    \E pvOut \in ProxyDataOf(fReadOk, cbOut) :
      LET PspAddrBufUnk == regs["R0"]
          PspAddrSizeUnk == regs["R1"]
          wrSize == UcMemWriteBytes(ucMap, ucRam, PspAddrSizeUnk, U32Bytes(cbOut))
          wrBuf == IF fReadOk
                   THEN UcMemWriteBytes(ucMap, wrSize.ram, PspAddrBufUnk, pvOut)
                   ELSE UcMemWriteUndef(ucMap, wrSize.ram, PspAddrBufUnk, cbOut)
      IN  /\ proxyOps' =
                << OpMemWrite(svc.hProxyCtx, PspAddrScratch, cbUnk),
                   OpMemWrite(svc.hProxyCtx, PspAddrScratchSize, 4),
                   OpSvcCallSts(svc.hProxyCtx, idxSyscall, PspAddrScratch,
                                PspAddrScratchSize, 0, 0, ProxyRc(fCallOk),
                                IF fCallOk THEN uStsProxy ELSE 0),
                   OpMemReadData(svc.hProxyCtx, PspAddrScratchSize,
                                 U32Bytes(cbOut), 0),
                   OpMemReadData(svc.hProxyCtx, PspAddrScratch, pvOut,
                                 ProxyRc(fReadOk)) >>
          /\ ucRegs' = [ regs EXCEPT !["R0"] = uStsProxy ]
          /\ ucRam' = wrBuf.ram
          /\ lastCall' = CallRec(regs, idxSyscall, rcRet, ~fCallOk \/ ~fReadOk)
          /\ lastApi' = NoApi
          /\ UNCHANGED << ucMap, aX86Mappings, pvBuf, svc, proxyMem, proxyX86,
                          lastWritten, lastFetched >>

\* PSPEmuSvcStateCall: dispatch through g_apfnSyscalls.  regs are the
\* registers the firmware had loaded when it executed the SVC.
PSPEmuSvcStateCall(regs, idxSyscall) ==
    LET h == SvcHandlerOf(idxSyscall)
    IN  \/ h = "NULL" /\ SvcNotImplemented(regs, idxSyscall)
        \/ h = "pspEmuSvcAppExit" /\ pspEmuSvcAppExit(regs, idxSyscall)
        \/ h = "pspEmuSvcAppInit" /\ pspEmuSvcAppInit(regs, idxSyscall)
        \/ h = "pspEmuSvcX86MemMap" /\ pspEmuSvcX86MemMap(regs, idxSyscall)
        \/ h = "pspEmuSvcX86MemUnmap" /\ pspEmuSvcX86MemUnmap(regs, idxSyscall)
        \/ h = "pspEmuSvcX86MemMapEx" /\ pspEmuSvcX86MemMapEx(regs, idxSyscall)
        \/ h = "pspEmuSvc0x35Unk" /\ pspEmuSvc0x35Unk(regs, idxSyscall)
        \/ h = "pspEmuSvc0x36Unk" /\ pspEmuSvc0x36Unk(regs, idxSyscall)
        \/ h = "pspEmuSvcSmnMapEx" /\ pspEmuSvcSmnMapEx(regs, idxSyscall)
        \/ h = "pspEmuSvcSmnMap" /\ pspEmuSvcSmnMap(regs, idxSyscall)
        \/ h = "pspEmuSvcSmnUnmap" /\ pspEmuSvcSmnUnmap(regs, idxSyscall)
        \/ h = "pspEmuSvcDbgLog" /\ pspEmuSvcDbgLog(regs, idxSyscall)
        \/ h = "pspEmuSvcX86CopyToPsp" /\ pspEmuSvcX86CopyToPsp(regs, idxSyscall)
        \/ h = "pspEmuSvcX86CopyFromPsp" /\ pspEmuSvcX86CopyFromPsp(regs, idxSyscall)
        \/ h = "pspEmuSvc0x38Unk" /\ pspEmuSvc0x38Unk(regs, idxSyscall)
        \/ h = "pspEmuSvc0x42Unk" /\ pspEmuSvc0x42Unk(regs, idxSyscall)
        \/ h = "pspEmuSvcSmuMsg" /\ pspEmuSvcSmuMsg(regs, idxSyscall)
        \/ h = "pspEmuSvcQuerySaveStateRegion"
              /\ pspEmuSvcQuerySaveStateRegion(regs, idxSyscall)
        \/ h = "pspEmuSvc0x41Unk" /\ pspEmuSvc0x41Unk(regs, idxSyscall)
        \/ h = "pspEmuSvc0x32Unk" /\ pspEmuSvc0x32Unk(regs, idxSyscall)
        \/ h = "pspEmuSvc0x33Unk" /\ pspEmuSvc0x33Unk(regs, idxSyscall)
        \/ h = "pspEmuSvcRng" /\ pspEmuSvcRng(regs, idxSyscall)
        \/ h = "pspEmuSvcQuerySmmRegion" /\ pspEmuSvcQuerySmmRegion(regs, idxSyscall)

\* ------------------------------------------------------------ window access

\* Cache buffer after bytes [lo, hi) were taken from src.
BufFilled(buf, lo, hi, src) ==
    [ a \in Tracked |-> IF lo <= a /\ a < hi THEN src[a] ELSE buf[a] ]

\* Whether a read of [addr, addr + cbRead) faults in from the proxy.
X86ReadFetches(m, addr, cbRead) == addr + cbRead > m.PspAddrCached

\* A fault-in mark that follows the end of the last read, up or down.
X86ReadCachedLast(m, addr, cbRead) == RoundUp4K(addr + cbRead)

\* PspAddrCached after a read of [addr, addr + cbRead).
X86ReadCached(m, addr, cbRead) ==
    IF X86ReadFetches(m, addr, cbRead)
    THEN RoundUp4K(addr + cbRead) ELSE m.PspAddrCached

\* The cache buffer a read of [addr, addr + cbRead) is served from.
X86ReadBuf(m, buf, mem, addr, cbRead) ==
    IF X86ReadFetches(m, addr, cbRead)
    THEN BufFilled(buf, m.PspAddrCached, X86ReadCached(m, addr, cbRead), mem)
    ELSE buf

\* MMIO read callback of a cached mapping: fault in from the proxy up to the
\* next 4 KiB boundary when the range ends above PspAddrCached, then serve
\* the bytes from the cache buffer.
pspEmuX86MapRead(i, addr, cbRead) ==
    LET m == aX86Mappings[i]
        fFetch == X86ReadFetches(m, addr, cbRead)
        cached == X86ReadCached(m, addr, cbRead)
    IN  /\ aX86Mappings' =
              [ aX86Mappings EXCEPT ![i] =
                  [ m EXCEPT !.PspAddrCached = cached,
                             !.cbAlloc = Max(m.cbAlloc, cached - m.PspAddrBase4K),
                             !.pvMapping = TRUE ] ]
        /\ pvBuf' = [ pvBuf EXCEPT ![i] =
                        X86ReadBuf(m, pvBuf[i], proxyMem, addr, cbRead) ]
        /\ lastFetched' =
              [ lastFetched EXCEPT ![i] =
                  X86ReadBuf(m, lastFetched[i], proxyMem, addr, cbRead) ]
        /\ proxyOps' = IF fFetch
                       THEN << OpMemRead(svc.hProxyCtx, m.PspAddrCached,
                                         cached - m.PspAddrCached) >>
                       ELSE << >>
        /\ lastCall' = NoCall
        /\ lastApi' = NoApi
        /\ UNCHANGED << core, ucRun >>
        /\ UNCHANGED << ucRegs, ucMap, ucRam, svc, proxyMem, proxyX86,
                        lastWritten >>

\* The bytes of the 32-bit value uVal as a store at addr lays them out.
X86WriteSource(addr, cbWrite, uVal) ==
    [ a \in Tracked |-> IF addr <= a /\ a < addr + cbWrite
                        THEN ByteOf(uVal, a - addr) ELSE UNDEF ]

\* MMIO write callback of a cached mapping: store into the cache buffer and
\* raise PspAddrHighestWritten; a write from below PspAddrCached to above it
\* raises PspAddrCached as well.  Nothing goes to the proxy.
pspEmuX86MapWrite(i, addr, cbWrite, uVal) ==
    LET m == aX86Mappings[i]
        end == addr + cbWrite
        src == X86WriteSource(addr, cbWrite, uVal)
    IN  /\ aX86Mappings' =
              [ aX86Mappings EXCEPT ![i] =
                  [ m EXCEPT !.PspAddrHighestWritten = Max(m.PspAddrHighestWritten, end),
                             !.PspAddrCached =
                                 IF addr < m.PspAddrCached /\ end > m.PspAddrCached
                                 THEN end ELSE m.PspAddrCached,
                             !.cbAlloc = Max(m.cbAlloc, end - m.PspAddrBase4K),
                             !.pvMapping = TRUE ] ]
        /\ pvBuf' = [ pvBuf EXCEPT ![i] = BufFilled(pvBuf[i], addr, end, src) ]
        /\ lastWritten' =
              [ lastWritten EXCEPT ![i] = BufFilled(lastWritten[i], addr, end, src) ]
        /\ lastFetched' =
              [ lastFetched EXCEPT ![i] = BufFilled(lastFetched[i], addr, end, NoHist) ]
        /\ proxyOps' = << >>   \* the write stays local
        /\ lastCall' = NoCall
        /\ lastApi' = NoApi
        /\ UNCHANGED << core, ucRun >>
        /\ UNCHANGED << ucRegs, ucMap, ucRam, svc, proxyMem, proxyX86 >>

\* Accesses the firmware performs: << address, length >>, at offsets 0, 16,
\* 4094 and 64 MiB of the first slot.
AccessAddrs ==
    { << ProxySlotBase(0) + off, 4 >> : off \in { 0, 16, 4094, _64M } }

\* The engine routes a load to the MMIO region that holds its range.
MmioRead ==
    \E acc \in AccessAddrs, r \in ucMap :
        /\ core.fAlive
        /\ r.slot >= 0 /\ r.lo <= acc[1] /\ acc[1] + acc[2] <= r.hi
        /\ pspEmuX86MapRead(r.slot, acc[1], acc[2])

\* The engine routes a store to the MMIO region that holds its range.
MmioWrite ==
    \E acc \in AccessAddrs, r \in ucMap :
        /\ core.fAlive
        /\ r.slot >= 0 /\ r.lo <= acc[1] /\ acc[1] + acc[2] <= r.hi
        /\ pspEmuX86MapWrite(r.slot, acc[1], acc[2], WriteVal)

\* ------------------------------------------------------------ specification

\* The firmware loads an argument register: R0 with 0 or an x86 address,
\* R2 with 0 or the address of the stack-top slot.
CoreSetReg ==
    \E enmReg \in { PSPCOREREG_R0, PSPCOREREG_R2 } :
      \E uVal \in (IF enmReg = PSPCOREREG_R0 THEN { 0 } \cup PhysAddrs
                                              ELSE { 0, UsrStackSlot }) :
        /\ core.fAlive
        /\ ucRegs' = PSPEmuCoreSetReg(ucRegs, enmReg, uVal).regs
        /\ proxyOps' = << >>
        /\ lastCall' = NoCall
        /\ lastApi' = NoApi
        /\ UNCHANGED << core, ucRun >>
        /\ UNCHANGED << ucMap, ucRam, aX86Mappings, pvBuf, svc, proxyMem,
                        proxyX86, lastWritten, lastFetched >>

\* The firmware executes an SVC instruction: of any number that has no
\* handler, or of a handler that leaves the x86 mappings alone.
SvcCall ==
    \E idxSyscall \in
           { idx \in 0 .. 255 :
               SvcHandlerOf(idx) \in { "NULL", "pspEmuSvcAppExit",
                                       "pspEmuSvcAppInit", "pspEmuSvcX86MemMap",
                                       "pspEmuSvc0x35Unk", "pspEmuSvc0x36Unk" } } :
        /\ core.fAlive
        /\ PSPEmuSvcStateCall(ucRegs, idxSyscall)
        /\ UNCHANGED << core, ucRun >>

\* The record of a finished API call.
ApiRec(fn, rc, args, out) == [ fn |-> fn, rc |-> rc, args |-> args, out |-> out ]

\* The embedder writes emulator memory through the core API: cb bytes of
\* uVal at addr, drawn from the given sets.
CoreMemWriteOf(addrs, sizes, vals) ==
    \E addr \in addrs, cb \in sizes, uVal \in vals :
        LET wr == PSPEmuCoreMemWrite(ucMap, ucRam, addr, uVal, cb)
        IN  /\ core.fAlive /\ ~ucRun.fRunning
            /\ ucRam' = wr.ram
            /\ lastApi' = ApiRec("PSPEmuCoreMemWrite", wr.rc, << addr, cb, uVal >>, << >>)
            /\ proxyOps' = << >>
            /\ lastCall' = NoCall
            /\ UNCHANGED << ucRegs, ucMap, aX86Mappings, pvBuf, svc, proxyMem,
                            proxyX86, lastWritten, lastFetched, core, ucRun >>

\* The embedder writes one of two byte patterns.
CoreMemWrite ==
    CoreMemWriteOf(MemApiAddrs, MemApiSizes, { WriteVal, WriteVal \div 256 })

\* The embedder puts a byte at either end of the SRAM of a CCD.
CcdMemWrite == CoreMemWriteOf({ 0, _256K - 1 }, { 1 }, { WriteVal })

\* The embedder reads emulator memory through the core API.
CoreMemRead ==
    \E addr \in MemApiAddrs, cb \in MemApiSizes :
        LET rd == PSPEmuCoreMemRead(ucMap, ucRam, addr, cb)
        IN  /\ core.fAlive /\ ~ucRun.fRunning
            /\ lastApi' = ApiRec("PSPEmuCoreMemRead", rd.rc, << addr, cb >>, rd.data)
            /\ proxyOps' = << >>
            /\ lastCall' = NoCall
            /\ UNCHANGED << ucRegs, ucMap, ucRam, aX86Mappings, pvBuf, svc,
                            proxyMem, proxyX86, lastWritten, lastFetched, core,
                            ucRun >>

\* The embedder sets a register of the core: any of the 16, to 0 or to the
\* largest word, while at most MaxRegsSet registers are not 0.
CoreSetAnyReg ==
    \E enmReg \in 1 .. 16, uVal \in { 0, U32 - 1 } :
        LET set == PSPEmuCoreSetReg(ucRegs, enmReg, uVal)
        IN  /\ core.fAlive /\ ~ucRun.fRunning
            /\ Cardinality({ r \in UcRegs : set.regs[r] /= 0 }) <= MaxRegsSet
            /\ ucRegs' = set.regs
            /\ lastApi' = ApiRec("PSPEmuCoreSetReg", set.rc, << enmReg, uVal >>, << >>)
            /\ proxyOps' = << >>
            /\ lastCall' = NoCall
            /\ UNCHANGED << ucMap, ucRam, aX86Mappings, pvBuf, svc, proxyMem,
                            proxyX86, lastWritten, lastFetched, core, ucRun >>

\* The embedder reads a register of the core.
CoreQueryReg ==
    \E enmReg \in 1 .. 16 :
        LET qry == PSPEmuCoreQueryReg(ucRegs, enmReg, NoVal)
        IN  /\ core.fAlive /\ ~ucRun.fRunning
            /\ lastApi' = ApiRec("PSPEmuCoreQueryReg", qry.rc, << enmReg >>,
                                 << qry.uVal >>)
            /\ proxyOps' = << >>
            /\ lastCall' = NoCall
            /\ UNCHANGED << ucRegs, ucMap, ucRam, aX86Mappings, pvBuf, svc,
                            proxyMem, proxyX86, lastWritten, lastFetched, core,
                            ucRun >>

\* PSPEmuCoreCcdSet: stores the CCD id, returns 0.
CoreCcdSet ==
    \E idCcd \in { 0, 1 } :
        /\ core.fAlive /\ ~ucRun.fRunning
        /\ core' = [ core EXCEPT !.idCcd = idCcd ]
        /\ lastApi' = ApiRec("PSPEmuCoreCcdSet", 0, << idCcd >>, << >>)
        /\ proxyOps' = << >>
        /\ lastCall' = NoCall
        /\ UNCHANGED << ucRegs, ucMap, ucRam, aX86Mappings, pvBuf, svc,
                        proxyMem, proxyX86, lastWritten, lastFetched, ucRun >>

\* PSPEmuCoreExecSetStartAddr: stores the address, returns 0.
PSPEmuCoreExecSetStartAddr(c, AddrExecStart) ==
    [ rc |-> 0, core |-> [ c EXCEPT !.PspAddrExecNext = AddrExecStart ] ]

\* The address PSPEmuCoreExecRun hands to uc_emu_start as begin.
UcEmuStartAddr(c, regs) == c.PspAddrExecNext

\* PSPEmuCoreExecStop: only returns -1.
PSPEmuCoreExecStop(run) == [ rc |-> 0 - 1, run |-> run ]

\* Everything the execution API leaves alone.
ExecFrame ==
    << ucMap, ucRam, aX86Mappings, pvBuf, svc, proxyMem, proxyX86,
       lastWritten, lastFetched >>

\* The embedder sets the start address: the first SRAM word, one further in,
\* or the last one.
CoreExecSetStartAddr ==
    \E AddrExecStart \in { 0, 64, _256K - 4 } :
        LET set == PSPEmuCoreExecSetStartAddr(core, AddrExecStart)
        IN  /\ core.fAlive /\ ~ucRun.fRunning
            /\ core' = set.core
            /\ lastApi' = ApiRec("PSPEmuCoreExecSetStartAddr", set.rc,
                                 << AddrExecStart >>, << >>)
            /\ proxyOps' = << >>
            /\ lastCall' = NoCall
            /\ UNCHANGED << ucRegs, ucRun >>
            /\ UNCHANGED ExecFrame

\* PSPEmuCoreExecRun enters uc_emu_start: the engine loads the program
\* counter with the begin address and arms the budgets: an instruction
\* budget of 1 to 3 and a time budget in ms (0 = none).  A run with no
\* instruction budget is left out: it ends only at the SRAM's end.
CoreExecRun ==
    \E cInsnExec \in { 1, 2, 3 }, msExec \in { 0, 10 } :
        /\ core.fAlive /\ ~ucRun.fRunning
        /\ ucRegs' = [ ucRegs EXCEPT !["PC"] = UcEmuStartAddr(core, ucRegs) ]
        /\ ucRun' = [ fRunning |-> TRUE, cInsnExec |-> cInsnExec,
                      msExec |-> msExec, cInsnLeft |-> cInsnExec,
                      cInsnDone |-> 0, enmStop |-> "none" ]
        /\ lastApi' = NoApi
        /\ proxyOps' = << >>
        /\ lastCall' = NoCall
        /\ UNCHANGED core
        /\ UNCHANGED ExecFrame

\* The engine executes the instruction at the program counter (the SRAM
\* holds straight-line code).
UcExecInsn ==
    /\ ucRun.fRunning /\ ucRun.cInsnLeft > 0
    /\ UcMemMapped(ucMap, ucRegs["PC"], 4)
    /\ ucRegs' = [ ucRegs EXCEPT !["PC"] = ucRegs["PC"] + 4 ]
    /\ ucRun' = [ ucRun EXCEPT !.cInsnLeft = ucRun.cInsnLeft - 1,
                               !.cInsnDone = ucRun.cInsnDone + 1 ]
    /\ lastApi' = NoApi
    /\ proxyOps' = << >>
    /\ lastCall' = NoCall
    /\ UNCHANGED core
    /\ UNCHANGED ExecFrame

\* The address the SVC instructions at the start of the code end at.
AnySvcEnd == 8

\* The engine executes the SVC instruction at the program counter: it moves
\* the program counter behind the instruction and calls the SVC hook, which
\* dispatches the call; when the hook returns the run goes on.
UcExecSvcOf(idxs, PspAddrEnd) ==
    \E idxSyscall \in idxs :
        /\ ucRun.fRunning /\ ucRun.cInsnLeft > 0
        /\ UcMemMapped(ucMap, ucRegs["PC"], 4)
        /\ ucRegs["PC"] < PspAddrEnd
        /\ PSPEmuSvcStateCall([ ucRegs EXCEPT !["PC"] = ucRegs["PC"] + 4 ],
                              idxSyscall)
        /\ ucRun' = [ ucRun EXCEPT !.cInsnLeft = ucRun.cInsnLeft - 1,
                                   !.cInsnDone = ucRun.cInsnDone + 1 ]
        /\ UNCHANGED core

\* SVC instructions anywhere in the code a run executes: AppExit, AppInit
\* and a number without a handler.
UcExecSvc == UcExecSvcOf({ 0, 1, 127 }, _256K)

\* The same for code that starts with SVC instructions of any number: every
\* number that has a handler, an empty slot of the table (2), the first
\* number behind the table (73) and two further ones beyond it.
UcExecSvcAny ==
    UcExecSvcOf({ idx \in 0 .. 72 : SvcHandlerOf(idx) /= "NULL" }
                    \cup { 2, 73, 127, 255 }, AnySvcEnd)

\* uc_emu_start returns and PSPEmuCoreExecRun with it: the instruction
\* budget is used up, the time budget ran out, or the fetch faulted.
CoreExecRunReturn ==
    \E enmStop \in { "count", "timeout", "fault" } :
        LET rcUc == IF enmStop = "fault" THEN "UC_ERR_FETCH_UNMAPPED"
                    ELSE "UC_ERR_OK"
        IN  /\ ucRun.fRunning
            /\ enmStop = "count" => ucRun.cInsnLeft = 0
            /\ enmStop = "timeout" => (ucRun.msExec > 0 /\ ucRun.cInsnLeft > 0)
            /\ enmStop = "fault"
                  => (ucRun.cInsnLeft > 0 /\ ~UcMemMapped(ucMap, ucRegs["PC"], 4))
            /\ ucRun' = UcIdle(enmStop)
            /\ lastApi' = ApiRec("PSPEmuCoreExecRun",
                                 pspEmuCoreErrConvertFromUcErr(rcUc),
                                 << ucRun.cInsnExec, ucRun.msExec >>,
                                 << ucRun.cInsnDone >>)
            /\ proxyOps' = << >>
            /\ lastCall' = NoCall
            /\ UNCHANGED << ucRegs, core >>
            /\ UNCHANGED ExecFrame

\* A hook the engine called for the instruction it just executed calls
\* PSPEmuCoreExecStop.
HookExecStop ==
    LET stop == PSPEmuCoreExecStop(ucRun)
    IN  /\ ucRun.fRunning /\ ucRun.cInsnDone > 0
        /\ lastApi.fn /= "PSPEmuCoreExecStop"
        /\ ucRun' = stop.run
        /\ lastApi' = ApiRec("PSPEmuCoreExecStop", stop.rc, << >>, << >>)
        /\ proxyOps' = << >>
        /\ lastCall' = NoCall
        /\ UNCHANGED << ucRegs, core >>
        /\ UNCHANGED ExecFrame

\* Offsets into the device's region (cbMmio = 4096) the firmware accesses,
\* and the access widths.
DevOffs == { 0, 4, 256, 260, 264, 4092 }
DevWidths == { 1, 2, 4 }

\* g_MmioDevRegUnk0x03010000: the registration record of the device.
g_MmioDevRegUnk0x03010000 == [ PspAddrMmioStart |-> 3 * 16777216 + 65536, cbMmio |-> 4096 ]

\* What the buffer of a device read holds before the device is called.
IomReadInit == 0

\* A read callback that leaves the buffer alone at every offset.
pspDevUnkMmioReadNothing(offMmio, cbRead, uVal) == uVal

\* A read callback that sets bit 8 at every offset.
pspDevUnkMmioReadReady(offMmio, cbRead, uVal) == 256

\* pspDevUnkMmioRead: offset 0x104 reads as 0x100, every other offset leaves
\* the value as the caller passed it.
pspDevUnkMmioRead(offMmio, cbRead, uVal) == IF offMmio = 260 THEN 256 ELSE uVal

\* Bytes of the buffer pspDevUnkMmioRead stores into: the uint32_t it assigns
\* at offset 0x104, whatever cbRead is; none at any other offset.
pspDevUnkMmioReadStored(offMmio, cbRead) == IF offMmio = 260 THEN 4 ELSE 0

\* The values an access of cb bytes can carry (a word is kept modulo U32).
DevWidthMod(cb) == IF cb = 1 THEN 256 ELSE IF cb = 2 THEN 65536 ELSE U32

\* pspDevUnkMmioWrite: the access is printed, nothing is stored.
pspDevUnkMmioWrite(offMmio, cbWrite, uVal) == [ rc |-> 0 ]

\* The firmware loads cbRead bytes from the device: the I/O manager calls
\* the read callback on a zeroed buffer and hands the engine its low cbRead
\* bytes.  Recorded: the value handed on and the bytes the callback stored.
DevMmioRead ==
    \E offMmio \in DevOffs, cbRead \in DevWidths :
        LET uVal == pspDevUnkMmioRead(offMmio, cbRead, IomReadInit)
        IN  /\ core.fAlive
            /\ offMmio + cbRead <= g_MmioDevRegUnk0x03010000.cbMmio
            /\ lastApi' = ApiRec("pspDevUnkMmioRead", 0, << offMmio, cbRead >>,
                                 << uVal % DevWidthMod(cbRead),
                                    pspDevUnkMmioReadStored(offMmio, cbRead) >>)
            /\ proxyOps' = << >>
            /\ lastCall' = NoCall
            /\ UNCHANGED << ucRegs, core, ucRun >>
            /\ UNCHANGED ExecFrame

\* The firmware stores cbWrite bytes to the device.
DevMmioWrite ==
    \E offMmio \in DevOffs, cbWrite \in DevWidths, uVal \in { 0, 256 } :
        LET wr == pspDevUnkMmioWrite(offMmio, cbWrite, uVal)
        IN  /\ core.fAlive
            /\ offMmio + cbWrite <= g_MmioDevRegUnk0x03010000.cbMmio
            /\ lastApi' = ApiRec("pspDevUnkMmioWrite", wr.rc,
                                 << offMmio, cbWrite, uVal >>, << >>)
            /\ proxyOps' = << >>
            /\ lastCall' = NoCall
            /\ UNCHANGED << ucRegs, core, ucRun >>
            /\ UNCHANGED ExecFrame

\* errno values PSPEmuCoreCreate hands back.
ENOMEM == 12
EINVAL == 22

\* PSPEmuCoreCreate: calloc of the core, calloc of the SRAM, uc_open, then
\* uc_mem_map_ptr of the SRAM at 0, whose result is not looked at, and the
\* handle is stored.  Each failure path frees what was acquired before it.
\* [rc, phCore: what *phCore holds, held: resources still allocated,
\* map: the engine's memory map].
PSPEmuCoreCreate(fCore, fSram, errOpen, errMap) ==
    IF ~fCore
    THEN [ rc |-> ENOMEM, phCore |-> "unset", held |-> { }, map |-> { } ]
    ELSE IF ~fSram
    THEN [ rc |-> ENOMEM, phCore |-> "unset",
           held |-> { "pThis" } \ { "pThis" }, map |-> { } ]
    ELSE IF errOpen /= "UC_ERR_OK"
    THEN [ rc |-> EINVAL, phCore |-> "unset",
           held |-> { "pThis", "pvSram" } \ { "pvSram", "pThis" }, map |-> { } ]
    ELSE [ rc |-> 0, phCore |-> "pThis",
           held |-> { "pThis", "pvSram", "pUcEngine" },
           map |-> IF errMap = "UC_ERR_OK"
                   THEN UcMmioMap({ }, 0, _256K, -1) ELSE { } ]

\* The embedder creates a core.  On success the core, with its x86 mapping
\* slots and the private state mapping, and the SRAM are as calloc leaves
\* them and the engine's registers are zero.
CoreCreate ==
    \E fCore \in BOOLEAN, fSram \in BOOLEAN,
       errOpen \in { "UC_ERR_OK", "UC_ERR_NOMEM" },
       errMap \in { "UC_ERR_OK", "UC_ERR_NOMEM" } :
        LET cr == PSPEmuCoreCreate(fCore, fSram, errOpen, errMap)
        IN  /\ ~core.fAlive
            /\ lastApi' = ApiRec("PSPEmuCoreCreate", cr.rc, << >>,
                                 << cr.phCore, cr.held >>)
            /\ proxyOps' = << >>
            /\ lastCall' = NoCall
            /\ IF cr.rc = 0
               THEN /\ core' = [ core EXCEPT !.fAlive = TRUE, !.PspAddrExecNext = 0,
                                              !.idCcd = 0 ]
                    /\ ucMap' = cr.map
                    /\ ucRam' = [ a \in RamTracked |-> 0 ]
                    /\ ucRegs' = [ r \in UcRegs |-> 0 ]
                    /\ aX86Mappings' = [ i \in X86MappingSlots |-> ZeroMapping ]
                    /\ svc' = [ svc EXCEPT !.X86MappingPrivState = ZeroMapping ]
               ELSE UNCHANGED << core, ucMap, ucRam, ucRegs, aX86Mappings, svc >>
            /\ UNCHANGED << pvBuf, proxyMem, proxyX86, lastWritten, lastFetched,
                            ucRun >>

\* PSPEmuCoreDestroy: closes the engine, frees the SRAM and the core.  The
\* x86 mappings and their buffers are not looked at.
CoreDestroy ==
    /\ core.fAlive /\ ~ucRun.fRunning
    /\ core' = [ core EXCEPT !.fAlive = FALSE ]
    /\ ucMap' = { }
    /\ lastApi' = ApiRec("PSPEmuCoreDestroy", 0, << >>, << >>)
    /\ proxyOps' = << >>
    /\ lastCall' = NoCall
    /\ UNCHANGED << ucRegs, ucRam, aX86Mappings, pvBuf, svc, proxyMem,
                    proxyX86, lastWritten, lastFetched, ucRun >>

\* A reset that releases no window.
CcdResetReleasesNone(maps) == { }

\* Slots PSPEmuCcdReset releases: the live windows.
CcdResetReleases(maps) ==
    { i \in X86MappingSlots :
        maps[i].PhysX86AddrBase /= NIL_X86PADDR /\ maps[i].pPspCore }

\* PSPEmuCcdReset: the registers and the SRAM are zeroed, every x86 window
\* is released (buffer freed, slot cleared), the engine keeps the SRAM only,
\* the SVC state is set up anew and the start address is the entry point.
PSPEmuCcdReset ==
    LET rel == CcdResetReleases(aX86Mappings)
    IN  /\ core.fAlive /\ ~ucRun.fRunning
        /\ ucRegs' = [ r \in UcRegs |-> 0 ]
        /\ ucRam' = [ a \in RamTracked |-> 0 ]
        /\ ucMap' = { r \in ucMap : r.slot < 0 }
        /\ aX86Mappings' =
              [ i \in X86MappingSlots |->
                  IF i \in rel THEN X86ClearedMapping(aX86Mappings[i])
                  ELSE aX86Mappings[i] ]
        /\ pvBuf' = [ i \in X86MappingSlots |->
                        IF i \in rel THEN NoBuf ELSE pvBuf[i] ]
        /\ lastWritten' = [ i \in X86MappingSlots |->
                              IF i \in rel THEN NoHist ELSE lastWritten[i] ]
        /\ lastFetched' = [ i \in X86MappingSlots |->
                              IF i \in rel THEN NoHist ELSE lastFetched[i] ]
        /\ svc' = SvcCreated
        /\ core' = [ core EXCEPT !.PspAddrExecNext = CcdEntryPoint ]
        /\ ucRun' = UcIdle("none")
        /\ lastApi' = ApiRec("PSPEmuCcdReset", 0, << >>, << >>)
        /\ proxyOps' = << >>
        /\ lastCall' = NoCall
        /\ UNCHANGED << proxyMem, proxyX86 >>

\* Forwarded calls the firmware issues: << number, R0, R1, R2 >>.  SmuMsg
\* with and without an answer pointer; the one-buffer calls on a buffer of
\* four bytes; the request-block calls 0x36 and 0x41 with the block at 0x6000;
\* QuerySaveStateRegion and AppExit;
\* QuerySmmRegion with two pointers.
FwdCalls ==
    ({ 40 } \X { 1 } \X { 2 } \X { 0, SvcBufBase, SvcBufUnmapped })
    \cup ({ 50, 51, 57 } \X { SvcBufBase, SvcBufUnmapped } \X { 4 } \X { 0 })
    \cup ({ 54, 65 } \X { 6 * _4K } \X { 0 } \X { 0 })
    \cup ({ 60 } \X { _4K } \X { 0 } \X { 0 })
    \cup { << 0, 0, 0, 0 >> }
    \cup { << 72, SvcBufBase, SvcBufBase + 8, 0 >>,
           << 72, SvcBufUnmapped, SvcBufUnmapped + 8, 0 >> }

\* The firmware loads the arguments and executes the SVC of a forwarded call.
SvcFwd ==
    \E call \in FwdCalls :
        /\ core.fAlive
        /\ PSPEmuSvcStateCall([ ucRegs EXCEPT !["R0"] = call[2],
                                              !["R1"] = call[3],
                                              !["R2"] = call[4] ], call[1])
        /\ UNCHANGED << core, ucRun >>

\* Forwarded supervisor calls, one after the other.
SpecFwd == Init /\ [][SvcFwd]_vars

\* Supervisor calls: argument registers and every kind of dispatch.
Spec == Init /\ [][CoreSetReg \/ SvcCall]_vars

\* The registers after the firmware loaded R0 with uVal.
WithR0(uVal) == PSPEmuCoreSetReg(ucRegs, PSPCOREREG_R0, uVal).regs

\* SVC 0x25 with an x86 address in R0.
X86MapEx ==
    \E phys \in PhysAddrs :
        /\ core.fAlive
        /\ PSPEmuSvcStateCall(WithR0(phys), 37)
        /\ UNCHANGED << core, ucRun >>

\* SVC 0x08 with the address of a mapping, or some other address, in R0.
X86Unmap ==
    \E uAddr \in { 0, 12 * _64M }
                 \cup { aX86Mappings[i].PspAddrBase : i \in X86MappingSlots } :
        /\ core.fAlive
        /\ PSPEmuSvcStateCall(WithR0(uAddr), 8)
        /\ UNCHANGED << core, ucRun >>

\* x86 windows: map, access, unmap.
SpecX86 == Init /\ [][X86MapEx \/ X86Unmap \/ MmioRead \/ MmioWrite]_vars

\* The memory API of the core.
SpecCore == Init /\ [][CoreMemWrite \/ CoreMemRead]_vars

\* Budgeted runs of the engine with hooks that ask it to stop.
SpecExec ==
    Init /\ [][CoreExecSetStartAddr \/ CoreExecRun \/ UcExecInsn
                  \/ CoreExecRunReturn \/ HookExecStop]_vars

\* One run of code that starts with supervisor calls of any number, up to
\* the end of its instruction budget.
SpecSvcRun == Init /\ [][CoreExecRun \/ UcExecInsn \/ UcExecSvcAny]_vars

\* Runs of firmware that issues supervisor calls.
SpecRun ==
    Init /\ [][CoreExecRun \/ UcExecInsn \/ UcExecSvc \/ CoreExecRunReturn]_vars

\* Accesses to the unknown device between writes to the SRAM.
SpecDev == Init /\ [][DevMmioRead \/ DevMmioWrite \/ CcdMemWrite]_vars

\* The life of a CCD from PSPEmuCcdCreate (the entry point is set) up to a
\* reset: windows are mapped and unmapped, SRAM and start address change,
\* the CCD is reset.
SpecCcd ==
    Created(ProxySlots, CcdEntryPoint)
        /\ [][X86MapEx \/ X86Unmap \/ CcdMemWrite \/ CoreExecSetStartAddr
                \/ PSPEmuCcdReset]_vars

\* The end of a core: windows are mapped, written and unmapped, then the
\* core is destroyed.
SpecDestroy == Init /\ [][X86MapEx \/ X86Unmap \/ MmioWrite \/ CoreDestroy]_vars

\* The register API of a core that has a start address, and its CCD id.
SpecReg ==
    Created(ProxySlots, CcdEntryPoint)
        /\ [][CoreSetAnyReg \/ CoreQueryReg \/ CoreCcdSet]_vars

\* The creation of a core and the first accesses to its memory.
SpecCreate == NoCore /\ [][CoreCreate \/ CoreMemWrite \/ CoreMemRead]_vars

\* Two windows side by side: map and unmap next to a proxied PSP with
\* exactly two x86 mapping slots.
SpecX86Map == Created({ 0, 1 }, 0) /\ [][X86MapEx \/ X86Unmap]_vars

\* ------------------------------------------------------------ supervisor calls

\* A syscall number with no handler: beyond the table (> 0x48) or an empty slot.
NoHandlerAt(idx) == idx > 72 \/ g_apfnSyscalls[idx + 1] = "NULL"

\* C1: a syscall number in [0, 256) that lies beyond the dispatch table or
\* whose slot is empty runs no handler and issues no proxy operation: the
\* call writes 0x9 to R0, leaves everything else alone and returns 0.
C1_NotImplemented ==
    [][ (lastCall'.idx \in 0 .. 255 /\ NoHandlerAt(lastCall'.idx))
            => /\ ucRegs' = [ ucRegs EXCEPT !["R0"] = 9 ]
               /\ proxyOps' = << >>
               /\ lastCall'.rc = 0
               /\ UNCHANGED MemVars ]_vars

\* SVC 0x49, the first number beyond the table, was issued with R0 = 0.
C1_Witness ==
    /\ lastCall.idx = 73
    /\ lastCall.regs["R0"] = 0
    /\ ucRegs["R0"] = 9
    /\ proxyOps = << >>

\* C2: after a call whose handler failed internally R0 holds 0x9 and every
\* other register holds the value it had before the SVC.
C2_FailureSetsR0 ==
    lastCall.fFailed
        => /\ ucRegs["R0"] = 9
           /\ \A r \in UcRegs \ { "R0" } : ucRegs[r] = lastCall.regs[r]

\* C3: a failure inside a handler never aborts the emulator:
\* PSPEmuSvcStateCall returns 0 to its caller.
C3_FailureReturnsZero == lastCall.fFailed => lastCall.rc = 0

\* C7: at most 8 x86 mappings are live, and a map call (0x07 or 0x25)
\* issued while all 8 slots are live leaves 0x9 in R0.
C7_TooManyWindows ==
    [][ /\ Cardinality(X86LiveSlots(aX86Mappings')) <= 8
        /\ (lastCall'.idx \in { 7, 37 }
                /\ X86LiveSlots(aX86Mappings) = X86MappingSlots)
              => ucRegs'["R0"] = 9 ]_vars

\* ------------------------------------------------------------ x86 windows

\* A slot pspEmuSvcX86MemMapEx filled and nobody unmapped: a live window.
X86Window(m) == m.PhysX86AddrBase /= NIL_X86PADDR /\ m.pPspCore

\* The step is SVC 0x08 with the base address of the window in slot i.
X86UnmapOf(i) ==
    /\ X86Window(aX86Mappings[i])
    /\ lastCall'.idx = 8
    /\ lastCall'.regs["R0"] = aX86Mappings[i].PspAddrBase

\* C4: when the proxy accepts every operation, the unmap of a window leaves
\* the proxy's memory in [psp_base, psp_highest_written) equal to the
\* window's cache buffer and every other proxy byte as it was.
C4_WriteCoalescing ==
    [][ \A i \in X86MappingSlots :
          (X86UnmapOf(i) /\ ~lastCall'.fFailed)
            => \A a \in Tracked :
                 proxyMem'[a] =
                    IF /\ aX86Mappings[i].PspAddrBase <= a
                       /\ a < aX86Mappings[i].PspAddrHighestWritten
                    THEN pvBuf[i][a] ELSE proxyMem[a] ]_vars

\* The PSP wrote byte a of the window in slot i after its last fault-in.
X86WrittenSinceFetch(i, a) ==
    lastWritten[i][a] /= NoVal /\ lastFetched[i][a] = NoVal

\* What a read of byte a of the window in slot i returns.
X86ReadByte(i, a) == X86ReadBuf(aX86Mappings[i], pvBuf[i], proxyMem, a, 1)[a]

\* C5: for every live window and every byte in [psp_base, psp_highest_read)
\* the PSP has not written since it was faulted in, a read returns the byte
\* the proxy held at the last fault-in.
C5_WindowMirroring ==
    \A i \in X86MappingSlots : \A a \in Tracked :
        ( /\ X86Window(aX86Mappings[i])
          /\ aX86Mappings[i].PspAddrBase <= a
          /\ a < aX86Mappings[i].PspAddrCached
          /\ ~X86WrittenSinceFetch(i, a) )
            => X86ReadByte(i, a) = lastFetched[i][a]

\* A byte of a live window was faulted in, lies below psp_highest_read and
\* still holds what the proxy held then.
C5_Witness ==
    \E i \in X86MappingSlots : \E a \in Tracked :
        /\ X86Window(aX86Mappings[i])
        /\ aX86Mappings[i].PspAddrBase <= a
        /\ a < aX86Mappings[i].PspAddrCached
        /\ lastFetched[i][a] = ProxyMemInit[a]
        /\ pvBuf[i][a] = ProxyMemInit[a]

\* C6: in a live window a read of a byte the PSP wrote returns the byte
\* written last; no fault-in replaces it.
C6_ReadAfterWrite ==
    \A i \in X86MappingSlots : \A a \in Tracked :
        (X86Window(aX86Mappings[i]) /\ lastWritten[i][a] /= NoVal)
            => X86ReadByte(i, a) = lastWritten[i][a]

\* C8: the registered ranges [psp_base_4k, psp_base_4k + size_4k) of two
\* distinct live windows are disjoint.
C8_WindowsDisjoint ==
    \A i \in X86MappingSlots : \A j \in X86MappingSlots \ { i } :
        (X86Window(aX86Mappings[i]) /\ X86Window(aX86Mappings[j]))
            => \/ aX86Mappings[i].PspAddrBase4K + aX86Mappings[i].cbMapped4K
                      <= aX86Mappings[j].PspAddrBase4K
               \/ aX86Mappings[j].PspAddrBase4K + aX86Mappings[j].cbMapped4K
                      <= aX86Mappings[i].PspAddrBase4K

\* C9: for every live window psp_highest_written <= psp_base + size and
\* psp_highest_read >= psp_highest_written.
C9_Watermarks ==
    \A i \in X86MappingSlots :
        X86Window(aX86Mappings[i])
            => /\ aX86Mappings[i].PspAddrHighestWritten
                     <= aX86Mappings[i].PspAddrBase + aX86Mappings[i].cbMapped
               /\ aX86Mappings[i].PspAddrCached
                     >= aX86Mappings[i].PspAddrHighestWritten

C13_AppInitMapsStack ==
    (lastCall.idx = 1 /\ lastCall.regs["R2"] = UsrStackSlot)
        => /\ UcMemMapped(ucMap, 80 * _4K, 2 * _4K)
           /\ \A k \in 0 .. 3 : ucRam[UsrStackSlot + k] = ByteOf(82 * _4K, k)
           /\ ucRegs["R0"] = 0

ApiOnSram(api, fn) ==
    /\ api.fn = fn
    /\ 0 <= api.args[1] /\ api.args[1] + api.args[2] <= _256K

CoreOtherErrs ==
    LET UcErrs == { "UC_ERR_OK", "UC_ERR_ARG", "UC_ERR_READ_UNMAPPED",
                    "UC_ERR_WRITE_UNMAPPED", "UC_ERR_FETCH_UNMAPPED" }
    IN  { pspEmuCoreErrConvertFromUcErr(e) :
            e \in UcErrs \ { "UC_ERR_OK", "UC_ERR_READ_UNMAPPED",
                              "UC_ERR_WRITE_UNMAPPED" } }

\* C16: PSPEmuCoreMemRead and PSPEmuCoreMemWrite return 0 on a range that
\* is mapped as a whole; on any other range they return the BadAddress
\* error, which differs from 0 and from the status of every other engine
\* error, and leave the emulator's memory as it was.
C16_BadAddress ==
    [][ lastApi'.fn \in { "PSPEmuCoreMemRead", "PSPEmuCoreMemWrite" }
          => IF UcMemMapped(ucMap, lastApi'.args[1], lastApi'.args[2])
             THEN lastApi'.rc = 0
             ELSE /\ lastApi'.rc /= 0
                  /\ lastApi'.rc \notin CoreOtherErrs
                  /\ UNCHANGED << ucRam, ucMap, pvBuf >> ]_vars

\* ------------------------------------------------------------ execution

\* C19: a PSPEmuCoreExecRun that ends because its instruction budget or its
\* time budget is used up returns 0, and the PSPEmuCoreExecRun called next
\* goes on at the program counter the run stopped at.
C19_RunResumes ==
    [][ /\ (lastApi'.fn = "PSPEmuCoreExecRun"
                /\ ucRun'.enmStop \in { "count", "timeout" })
              => lastApi'.rc = 0
        /\ ( /\ lastApi.fn = "PSPEmuCoreExecRun"
              /\ ucRun.enmStop \in { "count", "timeout" }
              /\ ucRun'.fRunning )
              => ucRegs'["PC"] = ucRegs["PC"] ]_vars

\* C20: PSPEmuCoreExecStop called from a hook returns 0, and the run it
\* interrupts executes no further instruction.
C20_StopFromHook ==
    [][ /\ lastApi'.fn = "PSPEmuCoreExecStop" => lastApi'.rc = 0
        /\ (lastApi.fn = "PSPEmuCoreExecStop" /\ ucRun.fRunning)
              => ucRun'.cInsnDone = ucRun.cInsnDone ]_vars

\* ------------------------------------------------------------ CCD

\* What the read APIs show: registers, SRAM, the windows and their engine
\* regions, a device read, the start address.
CcdObs ==
    [ regs |-> ucRegs,
      sram |-> [ a \in SramTracked |-> PSPEmuCoreMemRead(ucMap, ucRam, a, 1) ],
      windows |-> { i \in X86MappingSlots : X86Window(aX86Mappings[i]) },
      regions |-> { r \in ucMap : r.slot >= 0 },
      dev |-> pspDevUnkMmioRead(260, 4, 0),
      pc |-> core.PspAddrExecNext ]

\* The same of a CCD that was just created.
CcdObsFresh ==
    [ regs |-> [ r \in UcRegs |-> 0 ],
      sram |-> [ a \in SramTracked |-> [ rc |-> 0, data |-> (a :> 0) ] ],
      windows |-> { },
      regions |-> { },
      dev |-> 256,
      pc |-> CcdEntryPoint ]

C18_DestroySyncs ==
    [][ lastApi'.fn = "PSPEmuCoreDestroy"
          => \A i \in X86MappingSlots :
               X86Window(aX86Mappings[i])
                 => LET m == aX86Mappings[i]
                    IN  /\ ~X86Window(aX86Mappings'[i])
                        /\ pvBuf'[i] = NoBuf
                        /\ m.PspAddrHighestWritten > m.PspAddrBase
                              => /\ \E k \in 1 .. Len(proxyOps') :
                                       proxyOps'[k] =
                                         OpMemWrite(svc.hProxyCtx, m.PspAddrBase,
                                                    m.PspAddrHighestWritten - m.PspAddrBase)
                                 /\ \A a \in Tracked :
                                       (m.PspAddrBase <= a /\ a < m.PspAddrHighestWritten)
                                         => proxyMem'[a] = pvBuf[i][a] ]_vars

\* ------------------------------------------------------------ handlers

\* C21: AppExit issues one svc_call for the state buffer with the size
\* cbStateRegion and returns 0, and the run it was issued in executes no
\* instruction after it.
C21_AppExitHalts ==
    [][ /\ lastCall'.idx = 0
              => /\ Len(proxyOps') = 1
                 /\ proxyOps'[1].op = "svc_call"
                 /\ proxyOps'[1].idx = SVC_GET_STATE_BUFFER
                 /\ proxyOps'[1].args[1] \in SvcCbStateRegion(svc)
                 /\ lastCall'.rc = 0
        /\ (lastCall.idx = 0 /\ ucRun.fRunning)
              => ucRun'.cInsnDone <= ucRun.cInsnDone ]_vars

\* C30: whenever a handler has run, the SVC state holds the proxy context
\* that was supplied to PSPEmuSvcStateCreate, and every proxy operation the
\* handler issued went to that context; none of them closes it.
C30_ProxyCtxBorrowed ==
    lastCall.idx >= 0
        => /\ svc.hProxyCtx = hPspProxyCtx
           /\ \A k \in 1 .. Len(proxyOps) :
                 /\ proxyOps[k].ctx = hPspProxyCtx
                 /\ proxyOps[k].op \in { "svc_call", "mem_read", "mem_write" }

\* ------------------------------------------------------------ device

\* C27: every 4-byte read of the unknown device at offset 0x104 returns
\* 0x100, whatever was read or written before.
C27_ReadyBit ==
    [][ ( /\ lastApi'.fn = "pspDevUnkMmioRead"
          /\ lastApi'.args = << 260, 4 >> )
            => lastApi'.out[1] = 256 ]_vars

\* A 4-byte read at 0x104 right after a 4-byte write of 0 to 0x104.
C27_Witness ==
    /\ lastApi.fn = "pspDevUnkMmioRead"
    /\ lastApi.args = << 260, 4 >>
    /\ lastApi.out[1] = 256

\* C28: a read of 1, 2 or 4 bytes at an offset other than 0x104 returns 0;
\* every write is accepted; a write changes nothing a later read returns.
C28_OtherOffsetsZero ==
    [][ /\ ( /\ lastApi'.fn = "pspDevUnkMmioRead"
              /\ lastApi'.args[1] /= 260 )
                => lastApi'.out[1] = 0
        /\ lastApi'.fn = "pspDevUnkMmioWrite"
                => /\ lastApi'.rc = 0
                   /\ UNCHANGED << core, svc, ucMap, ucRam >> ]_vars

\* A read at 0x108 right after a write of 0x100 there returned 0.
C28_Witness ==
    /\ lastApi.fn = "pspDevUnkMmioRead"
    /\ lastApi.args[1] = 264
    /\ lastApi.out[1] = 0

\* ------------------------------------------------------------ forwarded calls

\* The bytes of engine RAM at [addr, addr + cb), all of them tracked.
RamBytes(ram, addr, cb) == [ i \in 1 .. cb |-> ram[(addr + i) - 1] ]

\* C23: SmuMsg (0x28) forwards R0 and R1 to the proxy and puts the status
\* the proxy answered in R0; with R2 /= 0 the four bytes read from the
\* proxy's scratch area are stored at *R2 (a pointer into mapped memory),
\* with R2 = 0 no PSP memory changes.
C23_SmuMsg ==
    [][ lastCall'.idx = 40
          => LET regs == lastCall'.regs
                 call == proxyOps'[1]
             IN  /\ call.op = "svc_call" /\ call.idx = 40
                 /\ call.args[1] = regs["R0"] /\ call.args[2] = regs["R1"]
                 /\ call.args[3] = (IF regs["R2"] /= 0 THEN PspAddrScratch ELSE 0)
                 /\ ucRegs'["R0"] = call.uSts
                 /\ regs["R2"] = 0 => /\ Len(proxyOps') = 1
                                      /\ UNCHANGED << ucRam, ucMap >>
                 /\ ( /\ regs["R2"] /= 0
                      /\ UcMemMapped(ucMap, regs["R2"], 4) )
                       => /\ Len(proxyOps') = 2
                          /\ proxyOps'[2].op = "mem_read"
                          /\ proxyOps'[2].addr = PspAddrScratch
                          /\ proxyOps'[2].cb = 4
                          /\ proxyOps'[2].rc = 0
                                => RamBytes(ucRam', regs["R2"], 4) = proxyOps'[2].data
             ]_vars

\* SmuMsg with R2 = 0x5000 stored the non-zero answer of the proxy there.
C23_Witness ==
    /\ lastCall.idx = 40
    /\ lastCall.regs["R2"] = SvcBufBase
    /\ Len(proxyOps) = 2
    /\ proxyOps[2].rc = 0
    /\ proxyOps[2].data[1] = 17
    /\ ucRam[SvcBufBase] = 17
    /\ ucRam[SvcBufBase + 3] = 68

\* C24: after QuerySmmRegion (0x48) with pointers R0 and R1 into mapped
\* memory, the 8 bytes at R0 are those read from scratch 0x20000, the 8
\* bytes at R1 those read from scratch 0x21000, and R0 holds the status the
\* proxy returned.
C24_QuerySmmRegion ==
    [][ ( /\ lastCall'.idx = 72
          /\ UcMemMapped(ucMap, lastCall'.regs["R0"], 8)
          /\ UcMemMapped(ucMap, lastCall'.regs["R1"], 8) )
          => /\ Len(proxyOps') = 3
             /\ proxyOps'[2].addr = PspAddrScratch
             /\ proxyOps'[3].addr = PspAddrScratchSize
             /\ RamBytes(ucRam', lastCall'.regs["R0"], 8) = proxyOps'[2].data
             /\ RamBytes(ucRam', lastCall'.regs["R1"], 8) = proxyOps'[3].data
             /\ ucRegs'["R0"] = proxyOps'[1].uSts ]_vars

\* C25: the one-buffer calls 0x32, 0x33 and 0x39 on a mapped buffer (R0,
\* R1 bytes) copy the buffer to the scratch area, forward the call with the
\* scratch address in place of R0, and copy the scratch area back, in this
\* order; when all of it succeeds the buffer holds the proxy's output; when
\* the call or a transfer fails the buffer is unchanged and R0 = 0x9.
C25_OneBuffer ==
    [][ ( /\ lastCall'.idx \in { 50, 51, 57 }
          /\ UcMemMapped(ucMap, lastCall'.regs["R0"], lastCall'.regs["R1"]) )
          => LET PspAddrBuf == lastCall'.regs["R0"]
                 cbBuf == lastCall'.regs["R1"]
                 ops == proxyOps'
                 fFailed == \E k \in 1 .. Len(ops) : ops[k].rc /= 0
                 fRefused == \E k \in 1 .. Len(ops) :
                                ops[k].op = "svc_call" /\ ops[k].uSts /= 0
             IN  /\ fFailed
                      => /\ RamBytes(ucRam', PspAddrBuf, cbBuf)
                              = RamBytes(ucRam, PspAddrBuf, cbBuf)
                         /\ ucRegs'["R0"] = PSPSTATUS_GENERAL_MEMORY_ERROR
                 /\ (~fFailed /\ ~fRefused)
                      => /\ Len(ops) = 3
                         /\ ops[1].op = "mem_write" /\ ops[1].cb = cbBuf
                         /\ ops[1].data = RamBytes(ucRam, PspAddrBuf, cbBuf)
                         /\ ops[2].op = "svc_call" /\ ops[2].idx = lastCall'.idx
                         /\ ops[2].args = << ops[1].addr, cbBuf, 0, 0 >>
                         /\ ops[3].op = "mem_read" /\ ops[3].addr = ops[1].addr
                         /\ ops[3].cb = cbBuf
                         /\ RamBytes(ucRam', PspAddrBuf, cbBuf) = ops[3].data
                         /\ ucRegs'["R0"] = 0 ]_vars

\* C26: 0x41 and 0x36 reject a request block whose word 0 is none of the
\* subtypes 0x41 knows: R0 = 0x9, no svc_call goes to the proxy, no PSP
\* memory changes.
C26_UnknownSubtype ==
    [][ ( /\ lastCall'.idx \in { 54, 65 }
          /\ lastApi'.fn = "uc_mem_read"
          /\ lastApi'.out[1] \notin Svc41Known )
          => /\ ucRegs'["R0"] = PSPSTATUS_GENERAL_MEMORY_ERROR
             /\ \A k \in 1 .. Len(proxyOps') : proxyOps'[k].op /= "svc_call"
             /\ UNCHANGED << ucRam, ucMap >> ]_vars

\* The Private State Window is live: its record is filled in, its buffer is
\* allocated and mapped into the engine, and it is none of the 8 slots.
PrivStateLive(s, map) ==
    /\ s.X86MappingPrivState.pvMapping
    /\ s.X86MappingPrivState.PhysX86AddrBase = PhysX86AddrPrivState
    /\ \E r \in map : r.slot = PrivStateSlot
    /\ PrivStateSlot \notin X86MappingSlots

\* C22: the Private State Window is allocated by the first
\* QuerySaveStateRegion (0x3c) on a freshly created core, is left as it is
\* by later 0x3c calls, is none of the 8 slots, and stays live across
\* AppExit (0x00).
C22_PrivStateWindow ==
    [][ /\ lastCall'.idx = 60 => PrivStateLive(svc', ucMap')
        /\ ( /\ PrivStateLive(svc, ucMap)
             /\ lastCall'.idx \in { 0, 60 } )
               => /\ PrivStateLive(svc', ucMap')
                  /\ svc'.X86MappingPrivState = svc.X86MappingPrivState ]_vars

\* ------------------------------------------------------------ resumption

\* C29: a supervisor call at address A, whatever its number and however it
\* ends, leaves the program counter at A + 4: the hook hands the dispatcher
\* the registers with PC = A + 4 and neither the dispatcher nor a handler
\* changes PC.
C29_ResumeAfterSvc ==
    [][ lastCall'.idx >= 0
          => /\ lastCall'.regs["PC"] = ucRegs["PC"] + 4
             /\ ucRegs'["PC"] = lastCall'.regs["PC"] ]_vars

\* The second SVC of a run, at address 4, was AppInit and failed; the
\* program counter is 8.
C29_Witness ==
    /\ lastCall.idx = 1
    /\ lastCall.fFailed
    /\ lastCall.regs["PC"] = 8
    /\ ucRegs["PC"] = 8
    /\ ucRun.fRunning

\* ------------------------------------------------------------ return values

\* C31: a supervisor call whose table slot holds a handler leaves the
\* handler's status or result in R0: an argument in R0 that is no status
\* value (neither 0 nor 0x9) is gone from R0 when PSPEmuSvcStateCall
\* returns.
C31_HandlerWritesR0 ==
    [][ ( /\ lastCall'.idx >= 0
          /\ lastCall'.handler /= "NULL"
          /\ lastCall'.regs["R0"] \notin { 0, PSPSTATUS_GENERAL_MEMORY_ERROR } )
          => ucRegs'["R0"] /= lastCall'.regs["R0"] ]_vars

\* ------------------------------------------------------------ monotonic windows

\* C32: while a window stays live neither psp_highest_read (PspAddrCached)
\* nor psp_highest_written decreases, and every fault-in is that of one live
\* window: it starts at or above the psp_highest_read it found and ends at
\* the new one, so that no range is fetched from the proxy twice.
C32_Monotonic ==
    [][ /\ \A i \in X86MappingSlots :
              LET m == aX86Mappings[i]
                  n == aX86Mappings'[i]
              IN  (X86Window(m) /\ X86Window(n) /\ n.PspAddrBase = m.PspAddrBase)
                    => /\ n.PspAddrCached >= m.PspAddrCached
                       /\ n.PspAddrHighestWritten >= m.PspAddrHighestWritten
        /\ \A k \in 1 .. Len(proxyOps') :
              proxyOps'[k].op = "mem_read"
                => \E i \in X86MappingSlots :
                      /\ X86Window(aX86Mappings[i]) /\ X86Window(aX86Mappings'[i])
                      /\ aX86Mappings'[i].PspAddrCached > aX86Mappings[i].PspAddrCached
                      /\ proxyOps'[k].addr >= aX86Mappings[i].PspAddrCached
                      /\ proxyOps'[k].addr + proxyOps'[k].cb
                            = aX86Mappings'[i].PspAddrCached ]_vars

\* The second page of a window the PSP has written to was just faulted in,
\* the first one having been fetched before.
C32_Witness ==
    \E i \in X86MappingSlots :
        /\ X86Window(aX86Mappings[i])
        /\ aX86Mappings[i].PspAddrHighestWritten > 0
        /\ proxyOps = << OpMemRead(svc.hProxyCtx,
                                   aX86Mappings[i].PspAddrBase4K + _4K, _4K) >>
        /\ aX86Mappings[i].PspAddrCached = aX86Mappings[i].PspAddrBase4K + (2 * _4K)

\* ------------------------------------------------------------ registered region

\* C33: the region registered for a live window starts at the 4 KiB
\* boundary at or below psp_base, has a size that is a multiple of 4 KiB,
\* and ends where the window ends, at the 64 MiB boundary above psp_base:
\* it covers the window and reaches no further.
C33_RegionSmallest ==
    \A i \in X86MappingSlots :
        LET m == aX86Mappings[i]
        IN  X86Window(m)
              => /\ m.PspAddrBase4K <= m.PspAddrBase
                 /\ m.PspAddrBase < m.PspAddrBase4K + _4K
                 /\ m.PspAddrBase4K % _4K = 0
                 /\ m.cbMapped4K % _4K = 0
                 /\ (m.PspAddrBase + m.cbMapped) % _64M = 0
                 /\ m.cbMapped > 0 /\ m.cbMapped <= _64M
                 /\ m.PspAddrBase4K + m.cbMapped4K = m.PspAddrBase + m.cbMapped

\* ------------------------------------------------------------ failed maps

\* C34: an X86MemMap or X86MemMapEx that fails leaves the window table as
\* it was, and after every step the x86 addresses mapped on the proxied PSP
\* are those of the live windows of the emulator.
C34_FailedMapRollsBack ==
    [][ LET ProxyMapped(px) == { px[s] : s \in DOMAIN px } \ { NIL_X86PADDR }
            X86Mapped(maps) ==
                { maps[i].PhysX86AddrBase :
                    i \in { j \in X86MappingSlots : X86Window(maps[j]) } }
        IN  /\ (lastCall'.idx \in { 7, 37 } /\ lastCall'.fFailed)
                  => aX86Mappings' = aX86Mappings
            /\ ProxyMapped(proxyX86') = X86Mapped(aX86Mappings') ]_vars

\* ------------------------------------------------------------ creation

\* C35: right after a PSPEmuCoreCreate that returned 0 every x86 mapping
\* slot and the private state mapping are free: PhysX86AddrBase is
\* NIL_X86PADDR, a value no x86 address (0 included) equals.
C35_SlotsFreeAfterCreate ==
    [][ (lastApi'.fn = "PSPEmuCoreCreate" /\ lastApi'.rc = 0)
          => /\ NIL_X86PADDR /= 0
             /\ \A i \in X86MappingSlots :
                   aX86Mappings'[i].PhysX86AddrBase = NIL_X86PADDR
             /\ svc'.X86MappingPrivState.PhysX86AddrBase = NIL_X86PADDR ]_vars

\* C39: PSPEmuCoreCreate returns 0 with the handle stored and the SRAM,
\* 256 KiB of zeros, mapped at address 0, or it returns ENOMEM or EINVAL
\* with no handle stored and nothing left allocated.
C39_CreateAllOrNothing ==
    [][ lastApi'.fn = "PSPEmuCoreCreate"
          => IF lastApi'.rc = 0
             THEN /\ lastApi'.out[1] = "pThis"
                  /\ core'.fAlive
                  /\ UcMemMapped(ucMap', 0, _256K)
                  /\ \A a \in SramTracked : ucRam'[a] = 0
             ELSE /\ lastApi'.rc \in { ENOMEM, EINVAL }
                  /\ lastApi'.out[1] = "unset"
                  /\ lastApi'.out[2] = { }
                  /\ ~core'.fAlive ]_vars


\* ------------------------------------------------------------ unmap of no window

\* C36: SVC 0x08 changes at most one slot, and only a live window whose
\* PspAddrBase is R0; with any other R0 (0 included) no slot changes, no
\* buffer is freed, no engine region is unmapped and no mem_write reaches
\* the proxy.
C36_UnmapOnlyLive ==
    [][ lastCall'.idx = 8
          => LET uAddr == lastCall'.regs["R0"]
                 Live == { i \in X86MappingSlots :
                             /\ X86Window(aX86Mappings[i])
                             /\ aX86Mappings[i].PspAddrBase = uAddr }
                 Changed == { i \in X86MappingSlots :
                                aX86Mappings'[i] /= aX86Mappings[i] }
             IN  /\ Changed \subseteq Live
                 /\ Cardinality(Changed) <= 1
                 /\ Live = { }
                      => /\ pvBuf' = pvBuf
                         /\ ucMap' = ucMap
                         /\ \A k \in 1..Len(proxyOps') :
                               proxyOps'[k].op /= "mem_write" ]_vars


\* ------------------------------------------------------------ state region size

\* C37: the size AppExit (0x00) hands to the proxy is the size the first
\* QuerySaveStateRegion (0x3c) got in R0, and 0 when there was none: the
\* first 0x3c stores its R0 in cbStateRegion, later ones leave it, and 0x00
\* passes what is stored, never a value nobody stored.
C37_StateRegionSize ==
    [][ /\ lastCall'.idx = 60
          => svc'.cbStateRegion = IF svc.cbStateRegion = UNDEF
                                  THEN lastCall'.regs["R0"]
                                  ELSE svc.cbStateRegion
        /\ lastCall'.idx = 0
          => /\ Len(proxyOps') = 1
             /\ proxyOps'[1].idx = SVC_GET_STATE_BUFFER
             /\ proxyOps'[1].args[1] = IF svc.cbStateRegion = UNDEF
                                       THEN 0 ELSE svc.cbStateRegion ]_vars


\* ------------------------------------------------------------ register API

\* C38: the 16 register names map to 16 distinct engine registers;
\* PSPEmuCoreSetReg(r, v) returns 0 and leaves every other register, the
\* memory, the CCD id and the next address to execute unchanged; a
\* PSPEmuCoreQueryReg(r) that follows it returns 0 and v.
C38_RegRoundTrip ==
    [][ /\ { pspEmuCoreReg2Uc(r) : r \in 1 .. 16 } = UcRegs
        /\ Cardinality(UcRegs) = 16
        /\ lastApi'.fn = "PSPEmuCoreSetReg"
              => /\ lastApi'.rc = 0
                 /\ \A r \in UcRegs \ { pspEmuCoreReg2Uc(lastApi'.args[1]) } :
                       ucRegs'[r] = ucRegs[r]
                 /\ UNCHANGED << ucRam, ucMap, pvBuf, core >>
        /\ ( /\ lastApi.fn = "PSPEmuCoreSetReg"
             /\ lastApi'.fn = "PSPEmuCoreQueryReg"
             /\ lastApi'.args[1] = lastApi.args[1] )
              => /\ lastApi'.rc = 0
                 /\ lastApi'.out[1] = lastApi.args[2] ]_vars

\* The program counter was set to the largest word and read back, on a core
\* with CCD id 1 and a start address.
C38_Witness ==
    /\ lastApi = ApiRec("PSPEmuCoreQueryReg", 0, << 16 >>, << U32 - 1 >>)
    /\ ucRegs["PC"] = U32 - 1
    /\ core.idCcd = 1
    /\ core.PspAddrExecNext /= 0


\* ------------------------------------------------------------ device read width

\* C40: a read callback called for cbRead bytes (1, 2 or 4) stores into at
\* most cbRead bytes of the buffer; a read of the unknown device at 0x104
\* yields the low cbRead bytes of 0x100.
C40_ReadWithinLength ==
    [][ lastApi'.fn = "pspDevUnkMmioRead"
          => /\ lastApi'.args[2] \in { 1, 2, 4 }
             /\ lastApi'.out[2] <= lastApi'.args[2]
             /\ lastApi'.args[1] = 260
                  => lastApi'.out[1] = 256 % DevWidthMod(lastApi'.args[2]) ]_vars

====
